---- MODULE Spec2Model ----
(***************************************************************************)
(* Model of the Seafile integration (custom_components/seafile): the API   *)
(* client (client.py), the data updater (updater.py), the sensor and       *)
(* binary-sensor entity adapters (sensor.py, binary_sensor.py, entity.py)  *)
(* and the thumbnail proxy view (views.py, helper.py).                     *)
(*                                                                         *)
(* JSON values are records of one shape, [t, s, n, items]:                 *)
(*   t = "obj"   items = sequence of fields [k |-> name, v |-> value]      *)
(*   t = "list"  items = sequence of values                                *)
(*   t = "str"   s = the string                                            *)
(*   t = "num"   n = the number                                            *)
(*   t = "bool"  n = 1 (true) or 0 (false)                                 *)
(*   t = "null"                                                            *)
(* A response body that is not JSON has t = "nonjson" (s = its text, the   *)
(* empty body being s = "") or t = "binary" (bytes that are not UTF-8).    *)
(***************************************************************************)
EXTENDS Integers, Sequences, FiniteSets, TLC

VARIABLES
    code,                 \* SeafileUpdater.code (an HTTP status code)
    is_reauthorization,   \* SeafileUpdater._is_reauthorization
    is_first_update,      \* SeafileUpdater._is_first_update
    is_only_check,        \* SeafileUpdater._is_only_check
    data,                 \* SeafileUpdater.data without "repositories"
    repositories,         \* SeafileUpdater.data["repositories"]
    sensors,              \* SeafileUpdater.sensors
    new_sensor_callback,  \* SeafileUpdater.new_sensor_callback is set
    last_update_success,  \* DataUpdateCoordinator.last_update_success
    token,                \* SeafileClient._token
    diagnostics,          \* SeafileClient.diagnostics
    entities,             \* the entities added to the platforms, by key
    wrote,                \* entities that wrote their state on the last notification
    added,                \* how often add_sensor ran, by descriptor key
    announced,            \* how often SIGNAL_NEW_SENSOR was sent, by descriptor key
    pc,                   \* position of the update() coroutine
    calls,                \* client calls issued by the current (or last) cycle
    raised,               \* exception raised inside the current (or last) cycle
    outcome,              \* how the last finished cycle ended
    prev,                 \* `outcome` when the current (or last) cycle started
    result,               \* outcome of the last direct client call
    response,             \* last response of the thumbnail proxy view
    media,                \* last outcome of the media source
    link,                 \* last file path encoded into a thumbnail URL and decoded
    flow,                 \* last result of a configuration flow step
    exported,             \* last diagnostics export
    accounts,             \* two configured accounts: descriptors, platform, entities
    tasks                 \* two update() coroutines of one updater: position, finished

vars == <<code, is_reauthorization, is_first_update, is_only_check, data,
          repositories, sensors, new_sensor_callback, last_update_success,
          token, diagnostics, entities, wrote, added, announced, pc, calls,
          raised, outcome, prev, result, response, media,
          link, flow, exported, accounts, tasks>>

updaterVars == <<code, is_reauthorization, is_first_update, is_only_check, data,
                 repositories, sensors, new_sensor_callback, last_update_success,
                 entities, wrote, added, announced, pc, calls, raised, outcome,
                 prev>>

\* what the client's direct callers, the view and the media source record
handlerVars == <<result, response, media, link, flow, exported,
                 accounts, tasks>>

(***************************************************************************)
(* JSON values                                                             *)
(***************************************************************************)
JStr(s) == [t |-> "str", s |-> s, n |-> 0, items |-> <<>>]

JNum(n) == [t |-> "num", s |-> "", n |-> n, items |-> <<>>]

JBool(b) == [t |-> "bool", s |-> "", n |-> IF b THEN 1 ELSE 0, items |-> <<>>]

JNull == [t |-> "null", s |-> "", n |-> 0, items |-> <<>>]

JList(xs) == [t |-> "list", s |-> "", n |-> 0, items |-> xs]

JObj(fs) == [t |-> "obj", s |-> "", n |-> 0, items |-> fs]

NonJson(s) == [t |-> "nonjson", s |-> s, n |-> 0, items |-> <<>>]

Binary == [t |-> "binary", s |-> "", n |-> 0, items |-> <<>>]

F(k, v) == [k |-> k, v |-> v]

\* Python truth value of a JSON value (`not errors`, `not response`)
Truthy(v) ==
    CASE v.t = "str" -> v.s # ""
      [] v.t \in {"num", "bool"} -> v.n # 0
      [] v.t \in {"list", "obj"} -> v.items # <<>>
      [] OTHER -> FALSE

\* `key in response` for a dict
HasKey(obj, k) == \E i \in 1..Len(obj.items) : obj.items[i].k = k

\* `response[key]` for a dict: json.loads keeps the last of duplicate fields
Get(obj, k) ==
    LET i == CHOOSE j \in 1..Len(obj.items) :
                 /\ obj.items[j].k = k
                 /\ \A l \in (j + 1)..Len(obj.items) : obj.items[l].k # k
    IN obj.items[i].v

\* json.loads(content): fails (ValueError) on a body that is not JSON
JsonLoads(content) ==
    IF content.t \in {"nonjson", "binary", "exception"}
    THEN [ok |-> FALSE, val |-> JNull]
    ELSE [ok |-> TRUE, val |-> content]

(***************************************************************************)
(* Exceptions                                                              *)
(***************************************************************************)
SeafileConnectionError == "SeafileConnectionError"

SeafileRequestError == "SeafileRequestError"

Exception(kind, msg) == [exc |-> kind, msg |-> msg]

NoException == Exception("", "")

RequestErrorMessage == "Request error."

(***************************************************************************)
(* SeafileClient                                                           *)
(***************************************************************************)
RECURSIVE JoinStr(_, _)
\* sep.join(xs) for a sequence of strings
JoinStr(xs, sep) ==
    IF xs = <<>> THEN ""
    ELSE IF Len(xs) = 1 THEN xs[1]
    ELSE xs[1] \o sep \o JoinStr(Tail(xs), sep)

\* "; ".join(errors): TypeError unless every item is a string
JoinErrors(errors) ==
    IF \A i \in 1..Len(errors.items) : errors.items[i].t = "str"
    THEN Exception("", JoinStr([i \in 1..Len(errors.items) |-> errors.items[i].s], "; "))
    ELSE Exception("TypeError", "")

RECURSIVE RaiseLoop(_, _)
\* the loop of _raise over response.items(): the fragments collected, or the
\* exception that ends the loop
RaiseLoop(fields, errs) ==
    IF fields = <<>> THEN [exc |-> "", errors |-> errs]
    ELSE LET field == fields[1].k
             errors == fields[1].v
         IN IF ~Truthy(errors) THEN RaiseLoop(Tail(fields), errs)
            ELSE IF errors.t = "str"
                 THEN RaiseLoop(Tail(fields), Append(errs, errors.s))
            ELSE IF errors.t = "list"
                 THEN LET j == JoinErrors(errors)
                      IN IF j.exc # "" THEN [exc |-> j.exc, errors |-> errs]
                         ELSE RaiseLoop(Tail(fields),
                                        Append(errs, field \o ": " \o j.msg))
            ELSE RaiseLoop(Tail(fields), errs)

\* _raise joining the fragments with "; " instead of ".\n"
RaiseJoinsWithSemicolon(resp) ==
    IF ~Truthy(resp) \/ resp.t = "list"
    THEN Exception(SeafileRequestError, RequestErrorMessage)
    ELSE IF resp.t # "obj"
         THEN Exception("AttributeError", "")
    ELSE LET r == RaiseLoop(resp.items, <<>>)
         IN IF r.exc # "" THEN Exception(r.exc, "")
            ELSE Exception(SeafileRequestError,
                           IF r.errors # <<>> THEN JoinStr(r.errors, "; ")
                           ELSE RequestErrorMessage)

\* SeafileClient._raise: the exception it raises
Raise(resp) ==
    IF ~Truthy(resp) \/ resp.t = "list"
    THEN Exception(SeafileRequestError, RequestErrorMessage)
    ELSE IF resp.t # "obj"
         THEN Exception("AttributeError", "")
    ELSE LET r == RaiseLoop(resp.items, <<>>)
         IN IF r.exc # "" THEN Exception(r.exc, "")
            ELSE Exception(SeafileRequestError,
                           IF r.errors # <<>> THEN JoinStr(r.errors, ".\n")
                           ELSE RequestErrorMessage)

\* str(content) as stored by _debug when content is not JSON
StrOf(content) ==
    CASE content.t = "exception" -> JStr(content.s)
      [] content.t = "binary" -> JStr("b'\\x..'")
      [] OTHER -> JStr("b'" \o content.s \o "'")

\* _debug keeping the first record of a path
DebugKeepsFirst(diag, message, content, path) ==
    LET j == JsonLoads(content)
        _content == IF j.ok THEN j.val ELSE StrOf(content)
        record == [message |-> message, content |-> _content]
    IN [p \in DOMAIN diag \cup {path} |-> IF p \in DOMAIN diag THEN diag[p] ELSE record]

\* SeafileClient._debug: the diagnostics after recording one request
Debug(diag, message, content, path) ==
    LET j == JsonLoads(content)
        _content == IF j.ok THEN j.val ELSE StrOf(content)
        record == [message |-> message, content |-> _content]
    IN [p \in DOMAIN diag \cup {path} |-> IF p = path THEN record ELSE diag[p]]

TransportException == [t |-> "exception", s |-> "HTTPError", n |-> 0, items |-> <<>>]

DecodeException == [t |-> "exception", s |-> "JSONDecodeError", n |-> 0, items |-> <<>>]

\* a call's result: the client state after it, the exception raised ("" when
\* it returned) and the value returned
CallResult(tok, diag, exception, ret) ==
    [token |-> tok, diagnostics |-> diag, exc |-> exception.exc,
     msg |-> exception.msg, ret |-> ret]

\* response.content.decode("utf-8"), else the raw bytes
DecodeText(content) ==
    IF content.t = "binary" THEN [content EXCEPT !.t = "bytes"]
    ELSE [t |-> "text", s |-> content.s, n |-> 0, items |-> <<content>>]

\* SeafileClient.request for one transport outcome `out`
Request(tok, diag, path, string_response, out) ==
    IF out.kind = "error"
    THEN CallResult(tok, Debug(diag, "Connection error", TransportException, path),
                    Exception(SeafileConnectionError, "Connection error"), JNull)
    ELSE LET d1 == Debug(diag, "Successful request", out.content, path)
             j == JsonLoads(out.content)
         IN IF string_response /\ out.status < 400
            THEN CallResult(tok, d1, NoException, DecodeText(out.content))
            ELSE IF ~j.ok
            THEN CallResult(tok, Debug(d1, "Connection error", DecodeException, path),
                            Exception(SeafileConnectionError, "Connection error"), JNull)
            ELSE IF out.status >= 400
            THEN CallResult(tok, d1, Raise(j.val), JNull)
            ELSE CallResult(tok, d1, NoException, j.val)

\* login() without its last two lines: the token is never stored
LoginTokenNeverStored(tok, _data) == [exc |-> "", token |-> tok]

\* `CONF_TOKEN in _data` followed by `_data.get(CONF_TOKEN)`
LoginToken(tok, _data) ==
    CASE _data.t = "obj" ->
            IF HasKey(_data, "token")
            THEN [exc |-> "", token |-> Get(_data, "token")]
            ELSE [exc |-> "", token |-> tok]
      [] _data.t = "list" ->
            IF \E i \in 1..Len(_data.items) : _data.items[i] = JStr("token")
            THEN [exc |-> "AttributeError", token |-> tok]
            ELSE [exc |-> "", token |-> tok]
      [] _data.t = "str" ->
            IF _data.s = "token"
            THEN [exc |-> "AttributeError", token |-> tok]
            ELSE [exc |-> "", token |-> tok]
      [] OTHER -> [exc |-> "TypeError", token |-> tok]

\* SeafileClient.login for one transport outcome `out`
Login(tok, diag, out) ==
    IF out.kind = "error"
    THEN CallResult(tok, Debug(diag, "Connection error", TransportException, "auth-token"),
                    Exception(SeafileConnectionError, "Connection error"), JNull)
    ELSE LET d1 == Debug(diag, "Successful request", out.content, "auth-token")
             j == JsonLoads(out.content)
         IN IF ~j.ok
            THEN CallResult(tok, Debug(d1, "Connection error", DecodeException, "auth-token"),
                            Exception(SeafileConnectionError, "Connection error"), JNull)
            ELSE IF out.status >= 400
            THEN CallResult(tok, d1, Raise(j.val), JNull)
            ELSE LET l == LoginToken(tok, j.val)
                 IN CallResult(l.token, d1, Exception(l.exc, ""), JNull)

(***************************************************************************)
(* Typed convenience calls of the client                                   *)
(***************************************************************************)
\* a list item usable by dict(): a two-item list whose first item is a string
IsPair(v) == v.t = "list" /\ Len(v.items) = 2 /\ v.items[1].t = "str"

\* dict(value), as SeafileClient.account and SeafileClient.server apply it
DictOf(v) ==
    CASE v.t = "obj" -> [exc |-> "", val |-> v]
      [] v.t = "list" ->
            IF \A i \in 1..Len(v.items) : IsPair(v.items[i])
            THEN [exc |-> "",
                  val |-> JObj([i \in 1..Len(v.items) |->
                                  F(v.items[i].items[1].s, v.items[i].items[2])])]
            ELSE IF \E i \in 1..Len(v.items) : v.items[i].t \in {"num", "bool", "null"}
                 THEN [exc |-> "TypeError", val |-> JNull]
            ELSE [exc |-> "ValueError", val |-> JNull]
      [] v.t = "str" ->
            IF v.s = "" THEN [exc |-> "", val |-> JObj(<<>>)]
            ELSE [exc |-> "ValueError", val |-> JNull]
      [] OTHER -> [exc |-> "TypeError", val |-> JNull]

\* list(value), as SeafileClient.libraries applies it (the characters of a
\* non-empty string are kept as one string item: no item of it is a dict)
ListOf(v) ==
    CASE v.t = "list" -> [exc |-> "", val |-> v.items]
      [] v.t = "obj" ->
            [exc |-> "", val |-> [i \in 1..Len(v.items) |-> JStr(v.items[i].k)]]
      [] v.t = "str" ->
            [exc |-> "", val |-> IF v.s = "" THEN <<>> ELSE <<JStr(v.s)>>]
      [] OTHER -> [exc |-> "TypeError", val |-> <<>>]

(***************************************************************************)
(* SeafileUpdater: the data stages                                         *)
(***************************************************************************)
OK == 200

NOT_FOUND == 404

FORBIDDEN == 403

BAD_GATEWAY == 502

\* httpx.codes.is_success
is_success(value) == 200 <= value /\ value <= 299

PREPARE_METHODS == <<"server", "account", "libraries">>

Put(f, k, v) == [x \in DOMAIN f \cup {k} |-> IF x = k THEN v ELSE f[x]]

\* dict.get(key, default)
GetOr(f, k, default) == IF k \in DOMAIN f THEN f[k] ELSE default

Inc(f, k) == Put(f, k, GetOr(f, k, 0) + 1)

\* int(value): the strings that are decimal numbers are those of NumericStr
NumericStr == [s \in {"0", "50", "100", "256"} |->
                 CASE s = "0" -> 0 [] s = "50" -> 50 [] s = "100" -> 100
                   [] s = "256" -> 256]

IntOf(v) ==
    CASE v.t \in {"num", "bool"} -> [exc |-> "", n |-> v.n]
      [] v.t = "str" ->
            IF v.s \in DOMAIN NumericStr THEN [exc |-> "", n |-> NumericStr[v.s]]
            ELSE [exc |-> "ValueError", n |-> 0]
      [] OTHER -> [exc |-> "TypeError", n |-> 0]

\* f"{value}"
Fmt(v) ==
    CASE v.t = "str" -> v.s
      [] v.t = "num" -> ToString(v.n)
      [] v.t = "bool" -> IF v.n = 1 THEN "True" ELSE "False"
      [] v.t = "null" -> "None"
      [] OTHER -> "[...]"

\* the value a sensor reads from the snapshot
SensorValue(desc, d, repos) ==
    IF desc.repository_code # JNull
    THEN IF desc.repository_code \in DOMAIN repos
         THEN CASE desc.custom_key = "size" -> repos[desc.repository_code].size
                [] desc.custom_key = "name" -> repos[desc.repository_code].name
                [] OTHER -> JNull
         ELSE JNull
    ELSE GetOr(d, desc.key, JNull)

\* SeafileSensor.__init__ (with SeafileEntity.__init__)
NewSensor(desc, d, repos) ==
    [platform |-> "sensor",
     key |-> desc.key, repository_code |-> desc.repository_code,
     custom_key |-> desc.custom_key,
     value |-> SensorValue(desc, d, repos),
     attr_available |-> GetOr(d, "state", JBool(FALSE)).n = 1]

\* add_sensor of sensor.async_setup_entry: one more entity for the descriptor
\* (the platform keeps one entity per unique id)
add_sensor(u, desc) ==
    [u EXCEPT !.added = Inc(u.added, desc.key),
              !.entities = IF desc.key \in DOMAIN u.entities THEN u.entities
                           ELSE Put(u.entities, desc.key,
                                    NewSensor(desc, u.data, u.repositories))]

\* _add_size_sensor without its `if code in self.sensors: return`
AddSizeSensorNoGuard(u, key, name, entity_category, repository_code, custom_key) ==
    LET desc == [key |-> key, name |-> name,
                 entity_category |-> entity_category,
                 repository_code |-> repository_code,
                 custom_key |-> custom_key]
        u1 == [u EXCEPT !.sensors = Put(u.sensors, key, desc)]
    IN IF u.new_sensor_callback
       THEN add_sensor([u1 EXCEPT !.announced = Inc(u.announced, key)], desc)
       ELSE u1

\* _add_size_sensor registering no descriptor for a library
AddSizeSensorSkipsLibraries(u, key, name, entity_category, repository_code, custom_key) ==
    IF key \in DOMAIN u.sensors \/ repository_code # JNull THEN u
    ELSE LET desc == [key |-> key, name |-> name,
                      entity_category |-> entity_category,
                      repository_code |-> repository_code,
                      custom_key |-> custom_key]
             u1 == [u EXCEPT !.sensors = Put(u.sensors, key, desc)]
         IN IF u.new_sensor_callback
            THEN add_sensor([u1 EXCEPT !.announced = Inc(u.announced, key)], desc)
            ELSE u1

\* SeafileUpdater._add_size_sensor
AddSizeSensor(u, key, name, entity_category, repository_code, custom_key) ==
    IF key \in DOMAIN u.sensors THEN u
    ELSE LET desc == [key |-> key, name |-> name,
                      entity_category |-> entity_category,
                      repository_code |-> repository_code,
                      custom_key |-> custom_key]
             u1 == [u EXCEPT !.sensors = Put(u.sensors, key, desc)]
         IN IF u.new_sensor_callback
            THEN add_sensor([u1 EXCEPT !.announced = Inc(u.announced, key)], desc)
            ELSE u1

\* SeafileUpdater._async_prepare_server, after the call returned `ret`
PrepareServer(u, ret) ==
    LET r == DictOf(ret)
    IN IF r.exc # "" THEN [u EXCEPT !.exc = r.exc]
       ELSE IF HasKey(r.val, "version")
            THEN [u EXCEPT !.data = Put(u.data, "device_sw_version", Get(r.val, "version"))]
       ELSE u

RECURSIVE AccountLoop(_, _, _)
\* the loop over ("total", "usage") of _async_prepare_account
AccountLoop(u, resp, codes) ==
    IF codes = <<>> THEN u
    ELSE LET c == codes[1]
         IN IF ~HasKey(resp, c) THEN AccountLoop(u, resp, Tail(codes))
            ELSE LET i == IntOf(Get(resp, c))
                     _code == "space_" \o c
                 IN IF i.exc # "" THEN [u EXCEPT !.exc = i.exc]
                    ELSE IF i.n >= 0
                    THEN AccountLoop(
                            AddSizeSensor([u EXCEPT !.data = Put(u.data, _code, JNum(i.n))],
                                          _code, "Space " \o c, "diagnostic", JNull, ""),
                            resp, Tail(codes))
                    ELSE AccountLoop(u, resp, Tail(codes))

\* _async_prepare_account with a loop over ("total",) alone
PrepareAccountTotalOnly(u, ret) ==
    LET r == DictOf(ret)
    IN IF r.exc # "" THEN [u EXCEPT !.exc = r.exc]
       ELSE AccountLoop(IF HasKey(r.val, "avatar_url")
                        THEN [u EXCEPT !.data = Put(u.data, "avatar_url",
                                                    Get(r.val, "avatar_url"))]
                        ELSE u,
                        r.val, <<"total">>)

\* SeafileUpdater._async_prepare_account, after the call returned `ret`
PrepareAccount(u, ret) ==
    LET r == DictOf(ret)
    IN IF r.exc # "" THEN [u EXCEPT !.exc = r.exc]
       ELSE AccountLoop(IF HasKey(r.val, "avatar_url")
                        THEN [u EXCEPT !.data = Put(u.data, "avatar_url",
                                                    Get(r.val, "avatar_url"))]
                        ELSE u,
                        r.val, <<"total", "usage">>)

RECURSIVE LibrariesLoop(_, _)
\* the loop over the listing of _async_prepare_libraries
LibrariesLoop(u, libs) ==
    IF libs = <<>> THEN u
    ELSE LET lib == libs[1]
         IN IF lib.t # "obj" THEN [u EXCEPT !.exc = "TypeError"]
            ELSE IF ~(HasKey(lib, "size") /\ HasKey(lib, "name") /\ HasKey(lib, "id"))
                 THEN [u EXCEPT !.exc = "KeyError"]
            ELSE IF Get(lib, "id").t \in {"list", "obj"}
                 THEN [u EXCEPT !.exc = "TypeError"]
            ELSE LET id == Get(lib, "id")
                     u1 == [u EXCEPT !.repositories =
                               Put(u.repositories, id,
                                   [size |-> Get(lib, "size"), name |-> Get(lib, "name")])]
                 IN LibrariesLoop(
                        AddSizeSensor(u1, Fmt(id) \o "_used",
                                      Fmt(Get(lib, "name")) \o " used",
                                      "None", id, "size"),
                        Tail(libs))

\* _async_prepare_libraries keeping only the libraries of the listing
PrepareLibrariesPrune(u, ret) ==
    LET r == ListOf(ret)
    IN IF r.exc # "" THEN [u EXCEPT !.exc = r.exc]
       ELSE LibrariesLoop([u EXCEPT !.repositories = <<>>], r.val)

\* SeafileUpdater._async_prepare_libraries, after the call returned `ret`
PrepareLibraries(u, ret) ==
    LET r == ListOf(ret)
    IN IF r.exc # "" THEN [u EXCEPT !.exc = r.exc]
       ELSE LibrariesLoop(u, r.val)

(***************************************************************************)
(* Entity adapters                                                         *)
(***************************************************************************)
\* SeafileBinarySensor.__init__ for the description of BINARY_SENSORS
NewBinarySensor(d) ==
    [platform |-> "binary_sensor",
     key |-> "state", repository_code |-> JNull, custom_key |-> "",
     value |-> GetOr(d, "state", JBool(FALSE)),
     attr_available |-> TRUE]

\* _handle_coordinator_update without its early return
SensorHandleAlwaysWrites(e, d, repos) ==
    LET is_available == GetOr(d, "state", JBool(FALSE)).n = 1
        state == SensorValue(e, d, repos)
    IN [entity |-> [e EXCEPT !.attr_available = is_available, !.value = state],
        write |-> TRUE]

\* SeafileSensor._handle_coordinator_update: the entity after the notification
SensorHandle(e, d, repos) ==
    LET is_available == GetOr(d, "state", JBool(FALSE)).n = 1
        state == SensorValue(e, d, repos)
    IN IF e.value = state /\ e.attr_available = is_available
       THEN [entity |-> e, write |-> FALSE]
       ELSE [entity |-> [e EXCEPT !.attr_available = is_available, !.value = state],
             write |-> TRUE]

\* SeafileBinarySensor._handle_coordinator_update
BinarySensorHandle(e, d) ==
    LET is_available == IF e.key # "state" THEN GetOr(d, "state", JBool(FALSE)).n = 1
                        ELSE TRUE
        is_on == GetOr(d, e.key, JBool(FALSE))
    IN IF e.value = is_on /\ e.attr_available = is_available
       THEN [entity |-> e, write |-> FALSE]
       ELSE [entity |-> [e EXCEPT !.attr_available = is_available, !.value = is_on],
             write |-> TRUE]

Handle(e, d, repos) ==
    IF e.platform = "sensor" THEN SensorHandle(e, d, repos)
    ELSE BinarySensorHandle(e, d)

\* the coordinator calls every listener after a refresh
Notify(ents, d, repos) ==
    [entities |-> [k \in DOMAIN ents |-> Handle(ents[k], d, repos).entity],
     wrote |-> {k \in DOMAIN ents : Handle(ents[k], d, repos).write}]

\* SeafileEntity.available
Available(k) == entities[k].attr_available /\ last_update_success

(***************************************************************************)
(* Transport outcomes                                                      *)
(***************************************************************************)
Resp(status, content) == [kind |-> "response", status |-> status, content |-> content]

TransportError == [kind |-> "error", status |-> 0, content |-> JNull]

Lib(id, size, name) ==
    JObj(<<F("id", JStr(id)), F("size", JNum(size)), F("name", JStr(name))>>)

ErrorBody == JObj(<<F("non_field_errors", JList(<<JStr("bad creds")>>))>>)

DetailBody == JObj(<<F("detail", JStr("Invalid token"))>>)

\* what the server may answer to POST auth-token
LoginOutcomes ==
    {TransportError,
     Resp(200, JObj(<<F("token", JStr("t1"))>>)),
     Resp(200, JObj(<<>>)),
     Resp(400, ErrorBody),
     Resp(200, JNum(5))}

\* what the server may answer to GET server-info
ServerOutcomes ==
    {TransportError,
     Resp(200, JObj(<<F("version", JStr("9.0.2"))>>)),
     Resp(200, JObj(<<>>))}

\* what the server may answer to GET account/info
AccountOutcomes ==
    {Resp(200, JObj(<<F("avatar_url", JStr("http://a")), F("total", JNum(100)),
                      F("usage", JNum(50))>>)),
     Resp(200, JObj(<<F("total", JNum(-2)), F("usage", JStr("50"))>>)),
     Resp(200, JObj(<<F("total", JNum(100)), F("usage", JStr("abc"))>>)),
     Resp(403, DetailBody)}

\* what the server may answer to GET repos
LibrariesOutcomes ==
    {TransportError,
     Resp(200, JList(<<Lib("u1", 10, "A")>>)),
     Resp(200, JList(<<Lib("u1", 20, "B")>>)),
     Resp(200, JList(<<Lib("u2", 20, "B")>>)),
     Resp(200, JList(<<Lib("u1", 10, "A"),
                       JObj(<<F("id", JStr("u2")), F("size", JNum(20))>>)>>))}

(***************************************************************************)
(* SeafileUpdater.update, one action per await                             *)
(***************************************************************************)
Empty == <<>>

\* the updater-side state a stage works on
Cur ==
    [data |-> data, repositories |-> repositories, sensors |-> sensors,
     new_sensor_callback |-> new_sensor_callback, announced |-> announced,
     added |-> added, entities |-> entities, exc |-> ""]

\* update() without its `self.code = codes.OK`
StartUpdateKeepsCode ==
    /\ pc = "idle"
    /\ pc' = IF is_reauthorization \/ is_first_update THEN "login" ELSE "server"
    /\ calls' = <<>>
    /\ raised' = ""
    /\ prev' = outcome
    /\ UNCHANGED <<code, is_reauthorization, is_first_update, is_only_check, data,
                   repositories, sensors, new_sensor_callback, last_update_success,
                   token, diagnostics, entities, wrote, added, announced, outcome,
                   handlerVars>>

\* update() starts: self.code = codes.OK, then the first await
StartUpdate ==
    /\ pc = "idle"
    /\ code' = OK
    /\ pc' = IF is_reauthorization \/ is_first_update THEN "login" ELSE "server"
    /\ calls' = <<>>
    /\ raised' = ""
    /\ prev' = outcome
    /\ UNCHANGED <<is_reauthorization, is_first_update, is_only_check, data,
                   repositories, sensors, new_sensor_callback, last_update_success,
                   token, diagnostics, entities, wrote, added, announced, outcome,
                   handlerVars>>

\* the stage returned and update() awaits the next call
Continue(u, next) ==
    /\ pc' = next
    /\ data' = u.data
    /\ repositories' = u.repositories
    /\ sensors' = u.sensors
    /\ announced' = u.announced
    /\ added' = u.added
    /\ entities' = u.entities
    /\ UNCHANGED <<code, is_reauthorization, is_first_update, last_update_success,
                   wrote, raised, outcome>>

\* update() recording not-found for a request error as well
FinishAlwaysNotFound(u, exc) ==
    LET seafile == exc \in {SeafileConnectionError, SeafileRequestError}
        returns == exc = "" \/ seafile
        code1 == CASE exc = SeafileConnectionError -> NOT_FOUND
                   [] exc = SeafileRequestError -> NOT_FOUND
                   [] OTHER -> code
        d1 == IF returns THEN Put(u.data, "state", JBool(is_success(code1)))
              ELSE u.data
        n == Notify(u.entities, d1, u.repositories)
    IN /\ code' = code1
       /\ is_reauthorization' = (IF exc = "" THEN FALSE
                                 ELSE IF seafile THEN TRUE ELSE is_reauthorization)
       /\ is_first_update' = (IF exc = "" THEN FALSE ELSE is_first_update)
       /\ data' = d1
       /\ repositories' = u.repositories
       /\ sensors' = u.sensors
       /\ announced' = u.announced
       /\ added' = u.added
       /\ last_update_success' = returns
       /\ entities' = n.entities
       /\ wrote' = n.wrote
       /\ raised' = exc
       /\ outcome' = (IF exc = "" THEN "success"
                      ELSE IF seafile THEN "failed" ELSE "crashed")
       /\ pc' = "idle"

\* update() returning a snapshot that holds the state alone
FinishFreshSnapshot(u, exc) ==
    LET seafile == exc \in {SeafileConnectionError, SeafileRequestError}
        returns == exc = "" \/ seafile
        code1 == CASE exc = SeafileConnectionError -> NOT_FOUND
                   [] exc = SeafileRequestError -> FORBIDDEN
                   [] OTHER -> code
        d1 == IF returns THEN Put(Empty, "state", JBool(is_success(code1)))
              ELSE u.data
        n == Notify(u.entities, d1, u.repositories)
    IN /\ code' = code1
       /\ is_reauthorization' = (IF exc = "" THEN FALSE
                                 ELSE IF seafile THEN TRUE ELSE is_reauthorization)
       /\ is_first_update' = (IF exc = "" THEN FALSE ELSE is_first_update)
       /\ data' = d1
       /\ repositories' = u.repositories
       /\ sensors' = u.sensors
       /\ announced' = u.announced
       /\ added' = u.added
       /\ last_update_success' = returns
       /\ entities' = n.entities
       /\ wrote' = n.wrote
       /\ raised' = exc
       /\ outcome' = (IF exc = "" THEN "success"
                      ELSE IF seafile THEN "failed" ELSE "crashed")
       /\ pc' = "idle"

\* the except / else clauses of update(), its last two statements, and the
\* coordinator taking the result: exc is the exception raised in the try
\* block, "" when there was none
Finish(u, exc) ==
    LET seafile == exc \in {SeafileConnectionError, SeafileRequestError}
        returns == exc = "" \/ seafile
        code1 == CASE exc = SeafileConnectionError -> NOT_FOUND
                   [] exc = SeafileRequestError -> FORBIDDEN
                   [] OTHER -> code
        d1 == IF returns THEN Put(u.data, "state", JBool(is_success(code1)))
              ELSE u.data
        n == Notify(u.entities, d1, u.repositories)
    IN /\ code' = code1
       /\ is_reauthorization' = (IF exc = "" THEN FALSE
                                 ELSE IF seafile THEN TRUE ELSE is_reauthorization)
       /\ is_first_update' = (IF exc = "" THEN FALSE ELSE is_first_update)
       /\ data' = d1
       /\ repositories' = u.repositories
       /\ sensors' = u.sensors
       /\ announced' = u.announced
       /\ added' = u.added
       /\ last_update_success' = returns
       /\ entities' = n.entities
       /\ wrote' = n.wrote
       /\ raised' = exc
       /\ outcome' = (IF exc = "" THEN "success"
                      ELSE IF seafile THEN "failed" ELSE "crashed")
       /\ pc' = "idle"

\* await self.client.login().  The record _debug writes for the call is not
\* kept in the cycle's actions: the log is followed call by call in SpecClient.
LoginStep(out) ==
    /\ pc = "login"
    /\ LET r == Login(token, diagnostics, out)
       IN /\ token' = r.token
          /\ diagnostics' = diagnostics
          /\ calls' = Append(calls, "login")
          /\ IF r.exc # "" THEN Finish(Cur, r.exc) ELSE Continue(Cur, "server")
    /\ UNCHANGED <<is_only_check, new_sensor_callback, prev, handlerVars>>

\* the loop over PREPARE_METHODS without its only-check filter
NextStageUnfiltered(method) ==
    CASE method = "server" -> "account"
      [] method = "account" -> "libraries"
      [] OTHER -> "done"

\* the stage after `method` in the loop over PREPARE_METHODS
NextStage(method) ==
    IF is_only_check THEN "done"
    ELSE CASE method = "server" -> "account"
           [] method = "account" -> "libraries"
           [] OTHER -> "done"

\* getattr(self, f"_async_prepare_{method}")
Prepare(method, u, ret) ==
    CASE method = "server" -> PrepareServer(u, ret)
      [] method = "account" -> PrepareAccount(u, ret)
      [] method = "libraries" -> PrepareLibraries(u, ret)

\* update() calling a stage again when its call raised
StageRetries(method, path, out) ==
    /\ pc = method
    /\ LET r == Request(token, diagnostics, path, FALSE, out)
           u == IF r.exc # "" THEN [Cur EXCEPT !.exc = r.exc] ELSE Prepare(method, Cur, r.ret)
       IN /\ token' = r.token
          /\ diagnostics' = diagnostics
          /\ calls' = Append(calls, method)
          /\ IF u.exc # "" THEN Continue(Cur, method)
             ELSE IF NextStage(method) = "done" THEN Finish(u, "")
             ELSE Continue(u, NextStage(method))
    /\ UNCHANGED <<is_only_check, new_sensor_callback, prev, handlerVars>>

\* await self._async_prepare(method, self.data)
Stage(method, path, out) ==
    /\ pc = method
    /\ LET r == Request(token, diagnostics, path, FALSE, out)
           u == IF r.exc # "" THEN [Cur EXCEPT !.exc = r.exc] ELSE Prepare(method, Cur, r.ret)
       IN /\ token' = r.token
          /\ diagnostics' = diagnostics
          /\ calls' = Append(calls, method)
          /\ IF u.exc # "" THEN Finish(u, u.exc)
             ELSE IF NextStage(method) = "done" THEN Finish(u, "")
             ELSE Continue(u, NextStage(method))
    /\ UNCHANGED <<is_only_check, new_sensor_callback, prev, handlerVars>>

ServerStep(out) == Stage("server", "server-info", out)

AccountStep(out) == Stage("account", "account/info", out)

LibrariesStep(out) == Stage("libraries", "repos", out)

(***************************************************************************)
(* Platform setup                                                          *)
(***************************************************************************)
RECURSIVE AddAll(_, _)
\* `for sensor in updater.sensors.values(): add_sensor(sensor)`
AddAll(u, keys) ==
    IF keys = {} THEN u
    ELSE LET k == CHOOSE x \in keys : TRUE
         IN AddAll(add_sensor(u, u.sensors[k]), keys \ {k})

\* sensor.async_setup_entry without its loop over updater.sensors
SensorSetupEntryNoLoop ==
    /\ ~is_only_check
    /\ ~new_sensor_callback
    /\ new_sensor_callback' = TRUE
    /\ UNCHANGED <<code, is_reauthorization, is_first_update, is_only_check, data,
                   repositories, sensors, last_update_success, token, diagnostics,
                   entities, wrote, added, announced, pc, calls, raised, outcome,
                   prev, handlerVars>>

\* sensor.async_setup_entry
SensorSetupEntry ==
    /\ ~is_only_check
    /\ ~new_sensor_callback
    /\ LET u == AddAll(Cur, DOMAIN sensors)
       IN /\ added' = u.added
          /\ entities' = u.entities
    /\ new_sensor_callback' = TRUE
    /\ UNCHANGED <<code, is_reauthorization, is_first_update, is_only_check, data,
                   repositories, sensors, last_update_success, token, diagnostics,
                   wrote, announced, pc, calls, raised, outcome, prev, handlerVars>>

\* binary_sensor.async_setup_entry
BinarySensorSetupEntry ==
    /\ ~is_only_check
    /\ "state" \notin DOMAIN entities
    /\ entities' = Put(entities, "state", NewBinarySensor(data))
    /\ UNCHANGED <<code, is_reauthorization, is_first_update, is_only_check, data,
                   repositories, sensors, new_sensor_callback, last_update_success,
                   token, diagnostics, wrote, added, announced, pc, calls, raised,
                   outcome, prev, handlerVars>>

(***************************************************************************)
(* Specification of one updater with its platforms                         *)
(***************************************************************************)
NoResult ==
    [call |-> "", path |-> "", string_response |-> FALSE, out |-> TransportError,
     exc |-> "", msg |-> "", ret |-> JNull]

\* no request to the thumbnail proxy handled yet
NoRequest == [entry_id |-> "", repo_id |-> <<>>, size |-> "", file_path |-> <<>>]

NoResponse ==
    [served |-> FALSE, request |-> NoRequest, status |-> 0, body |-> "",
     content_type |-> "", cache |-> FALSE, calls |-> <<>>, exc |-> ""]

\* no call of the media source made yet
NoNode == [identifier |-> "", title |-> "", can_expand |-> FALSE, children |-> <<>>]

NoMedia ==
    [op |-> "", identifier |-> <<>>, out |-> TransportError, exc |-> "", msg |-> "",
     node |-> NoNode, url |-> "", mime |-> "", calls |-> <<>>]

\* no thumbnail URL generated yet
NoLink == [generated |-> FALSE, path |-> <<>>, file_path |-> <<>>, decoded |-> <<>>]

\* the config entries of two accounts
Accounts == {"A", "B"}

\* two updaters after construction: no descriptor, no platform set up
NoAccounts ==
    [a \in Accounts |-> [repositories |-> {}, sensors |-> {},
                         new_sensor_callback |-> FALSE, entities |-> {}]]

\* the timer-driven refresh and a requested refresh of one updater
Tasks == {1, 2}

\* no update() coroutine has started; `login` tells whether the coroutine's
\* own await of login() returned, `raised` what its try block caught
NoTasks == [t \in Tasks |-> [pc |-> "idle", done |-> FALSE, login |-> FALSE, raised |-> ""]]

\* no diagnostics exported yet
NoExport == [done |-> FALSE, value |-> JNull]

\* no flow step has returned yet
NoFlow == [step |-> "none", type |-> "", errors |-> "", code |-> 0, verified |-> FALSE]

Init ==
    /\ code = BAD_GATEWAY
    /\ is_reauthorization = TRUE
    /\ is_first_update = TRUE
    /\ is_only_check \in BOOLEAN
    /\ data = Empty
    /\ repositories = Empty
    /\ sensors = Empty
    /\ new_sensor_callback = FALSE
    /\ last_update_success = TRUE
    /\ token = JNull
    /\ diagnostics = Empty
    /\ entities = Empty
    /\ wrote = {}
    /\ added = Empty
    /\ announced = Empty
    /\ pc = "idle"
    /\ calls = <<>>
    /\ raised = ""
    /\ outcome = "none"
    /\ prev = "none"
    /\ result = NoResult
    /\ response = NoResponse
    /\ media = NoMedia
    /\ link = NoLink
    /\ flow = NoFlow
    /\ exported = NoExport
    /\ accounts = NoAccounts
    /\ tasks = NoTasks

Next ==
    \/ StartUpdate
    \/ \E out \in LoginOutcomes : LoginStep(out)
    \/ \E out \in ServerOutcomes : ServerStep(out)
    \/ \E out \in AccountOutcomes : AccountStep(out)
    \/ \E out \in LibrariesOutcomes : LibrariesStep(out)
    \/ SensorSetupEntry
    \/ BinarySensorSetupEntry

Spec == Init /\ [][Next]_vars

(***************************************************************************)
(* Specification of the client alone: login() and request() called with    *)
(* every transport outcome, status and body shape                          *)
(***************************************************************************)
\* response bodies, by shape
ClientBodies ==
    {JObj(<<>>),
     JObj(<<F("token", JStr("t1"))>>),
     JObj(<<F("token", JStr("t2")), F("a", JStr("msg"))>>),
     ErrorBody,
     DetailBody,
     JObj(<<F("a", JStr("msg")), F("b", JList(<<JStr("x"), JStr("y")>>)),
            F("c", JList(<<>>)), F("d", JNum(5))>>),
     JObj(<<F("errors", JList(<<JNum(1), JNum(2)>>))>>),
     JList(<<>>),
     JList(<<JStr("x")>>),
     JStr("oops"),
     JNum(5),
     JNull,
     NonJson(""),
     NonJson("<html>"),
     Binary}

ClientStatuses == {200, 399, 400}

ClientOutcomes ==
    {TransportError} \cup {Resp(st, b) : st \in ClientStatuses, b \in ClientBodies}

ClientPaths == {"server-info"}

\* a direct call of SeafileClient.login
ClientLogin(out) ==
    /\ pc = "idle"
    /\ LET r == Login(token, diagnostics, out)
       IN /\ token' = r.token
          /\ diagnostics' = r.diagnostics
          /\ result' = [call |-> "login", path |-> "auth-token",
                        string_response |-> FALSE, out |-> out,
                        exc |-> r.exc, msg |-> r.msg, ret |-> r.ret]
    /\ UNCHANGED <<updaterVars, response, media, link, flow, exported, accounts, tasks>>

\* a direct call of SeafileClient.request
ClientRequest(path, string_response, out) ==
    /\ pc = "idle"
    /\ LET r == Request(token, diagnostics, path, string_response, out)
       IN /\ token' = r.token
          /\ diagnostics' = r.diagnostics
          /\ result' = [call |-> "request", path |-> path,
                        string_response |-> string_response, out |-> out,
                        exc |-> r.exc, msg |-> r.msg, ret |-> r.ret]
    /\ UNCHANGED <<updaterVars, response, media, link, flow, exported, accounts, tasks>>

NextClient ==
    \/ \E out \in ClientOutcomes : ClientLogin(out)
    \/ \E path \in ClientPaths, sr \in BOOLEAN, out \in ClientOutcomes :
          ClientRequest(path, sr, out)

SpecClient == Init /\ [][NextClient]_vars

(***************************************************************************)
(* helper.py: strings as sequences of characters                           *)
(***************************************************************************)
Rep(c, n) == [i \in 1..n |-> c]

\* the string a sequence of characters spells
RECURSIVE Text(_)
Text(cs) == IF cs = <<>> THEN "" ELSE Head(cs) \o Text(Tail(cs))

StartsWith(cs, old) == Len(cs) >= Len(old) /\ SubSeq(cs, 1, Len(old)) = old

\* str.replace(old, new)
RECURSIVE Replace(_, _, _)
Replace(cs, old, new) ==
    IF cs = <<>> THEN <<>>
    ELSE IF StartsWith(cs, old)
         THEN new \o Replace(SubSeq(cs, Len(old) + 1, Len(cs)), old, new)
    ELSE <<Head(cs)>> \o Replace(Tail(cs), old, new)

RECURSIVE LStrip(_, _)
LStrip(cs, chars) ==
    IF cs # <<>> /\ Head(cs) \in chars THEN LStrip(Tail(cs), chars) ELSE cs

RECURSIVE RStrip(_, _)
RStrip(cs, chars) ==
    IF cs # <<>> /\ cs[Len(cs)] \in chars
    THEN RStrip(SubSeq(cs, 1, Len(cs) - 1), chars) ELSE cs

\* str.strip(chars)
Strip(cs, chars) == RStrip(LStrip(cs, chars), chars)

HexLower == <<"0", "1", "2", "3", "4", "5", "6", "7", "8", "9",
              "a", "b", "c", "d", "e", "f">>

HexUpper == <<"0", "1", "2", "3", "4", "5", "6", "7", "8", "9",
              "A", "B", "C", "D", "E", "F">>

IsHex(c) == \E i \in 1..16 : HexLower[i] = c \/ HexUpper[i] = c

HexValue(c) == (CHOOSE i \in 1..16 : HexLower[i] = c \/ HexUpper[i] = c) - 1

\* UUID(uuid, version=4): the 32 hex digits of the value, with the version
\* and variant bits forced, or ValueError
UUID(uuid) ==
    LET hex == Replace(Strip(Replace(Replace(uuid, <<"u", "r", "n", ":">>, <<>>),
                                     <<"u", "u", "i", "d", ":">>, <<>>),
                             {"{", "}"}),
                       <<"-">>, <<>>)
    IN IF Len(hex) # 32 \/ \E i \in 1..Len(hex) : ~IsHex(hex[i])
       THEN [exc |-> "ValueError", int |-> <<>>]
       ELSE [exc |-> "",
             int |-> [i \in 1..32 |->
                        IF i = 13 THEN 4
                        ELSE IF i = 17 THEN 8 + (HexValue(hex[i]) % 4)
                        ELSE HexValue(hex[i])]]

\* str(uuid_object)
UUIDStr(int) ==
    LET h == [i \in 1..32 |-> HexLower[int[i] + 1]]
    IN SubSeq(h, 1, 8) \o <<"-">> \o SubSeq(h, 9, 12) \o <<"-">> \o
       SubSeq(h, 13, 16) \o <<"-">> \o SubSeq(h, 17, 20) \o <<"-">> \o
       SubSeq(h, 21, 32)

is_valid_uuid(uuid) ==
    LET uuid_object == UUID(uuid)
    IN uuid_object.exc = "" /\ UUIDStr(uuid_object.int) = uuid

\* the characters the escapes of the modelled paths stand for
Chr == [h \in {<<"2", "0">>, <<"2", "5">>, <<"2", "8">>, <<"2", "9">>, <<"2", "B">>,
                <<"2", "F">>, <<"7", "C">>} |->
          CASE h = <<"2", "0">> -> " " [] h = <<"2", "5">> -> "%"
            [] h = <<"2", "8">> -> "(" [] h = <<"2", "9">> -> ")"
            [] h = <<"2", "B">> -> "+" [] h = <<"2", "F">> -> "/"
            [] h = <<"7", "C">> -> "|"]

\* urllib.parse.unquote: one pass over the %XX escapes
RECURSIVE Unquote(_)
Unquote(cs) ==
    IF cs = <<>> THEN <<>>
    ELSE IF Head(cs) = "%" /\ Len(cs) >= 3 /\ SubSeq(cs, 2, 3) \in DOMAIN Chr
         THEN <<Chr[SubSeq(cs, 2, 3)]>> \o Unquote(SubSeq(cs, 4, Len(cs)))
    ELSE <<Head(cs)>> \o Unquote(Tail(cs))

unquote_plus(cs) == Unquote(Replace(cs, <<"+">>, <<" ">>))

decode_path(path) ==
    Replace(Replace(unquote_plus(path), <<"|", "2", "8", "|">>, <<"(">>),
            <<"|", "2", "9", "|">>, <<")">>)

\* get_short_mime; None is ""
get_short_mime(mime) ==
    IF mime = "" THEN ""
    ELSE CASE mime = "image/jpeg" -> "image" [] mime = "image/heic" -> "image"
           [] mime = "video/mp4" -> "video" [] mime = "text/plain" -> "text"

\* urllib.parse.quote_plus(path, "/") of one character: letters, digits,
\* "_.-~" and "/" are kept, a blank becomes "+", the rest is escaped
Quote(c) ==
    CASE c = " " -> <<"+">>
      [] c = "|" -> <<"%", "7", "C">>
      [] c = "(" -> <<"%", "2", "8">>
      [] c = ")" -> <<"%", "2", "9">>
      [] c = "%" -> <<"%", "2", "5">>
      [] c = "+" -> <<"%", "2", "B">>
      [] OTHER -> <<c>>

RECURSIVE quote_plus(_)
quote_plus(cs) ==
    IF cs = <<>> THEN <<>> ELSE Quote(Head(cs)) \o quote_plus(Tail(cs))

encode_path(path) ==
    Strip(quote_plus(Replace(Replace(path, <<"(">>, <<"|", "2", "8", "|">>),
                             <<")">>, <<"|", "2", "9", "|">>)),
          {"/"})

\* str.split(sep)
RECURSIVE Split(_, _)
Split(cs, sep) ==
    IF \A i \in 1..Len(cs) : cs[i] # sep THEN <<cs>>
    ELSE LET i == CHOOSE k \in 1..Len(cs) :
                      cs[k] = sep /\ \A j \in 1..(k - 1) : cs[j] # sep
         IN <<SubSeq(cs, 1, i - 1)>> \o Split(SubSeq(cs, i + 1, Len(cs)), sep)

\* sep.join(parts)
RECURSIVE Join(_, _)
Join(parts, sep) ==
    IF parts = <<>> THEN <<>>
    ELSE IF Len(parts) = 1 THEN parts[1]
    ELSE parts[1] \o <<sep>> \o Join(Tail(parts), sep)

(***************************************************************************)
(* views.py: the thumbnail proxy                                           *)
(***************************************************************************)
MIMETYPE_HEIC == "image/heic"

MIMETYPE_JPEG == "image/jpeg"

MEDIA_CLASS_VIDEO == "video"

\* the extension of the last path segment, with its dot
Ext(cs) ==
    LET dots == {i \in 1..Len(cs) : cs[i] = "."}
        slashes == {i \in 1..Len(cs) : cs[i] = "/"}
        Max(S) == CHOOSE x \in S : \A y \in S : y <= x
        start == IF slashes = {} THEN 1 ELSE Max(slashes) + 1
    IN IF dots = {} \/ Max(dots) <= start THEN <<>>
       ELSE SubSeq(cs, Max(dots), Len(cs))

\* mimetypes.guess_type; None is ""
guess_type(file_path) ==
    LET ext == Text(Ext(file_path))
    IN CASE ext = ".jpg" -> MIMETYPE_JPEG
         [] ext = ".heic" -> MIMETYPE_HEIC
         [] ext = ".mp4" -> "video/mp4"
         [] ext = ".txt" -> "text/plain"
         [] OTHER -> ""

\* requests: entry ids, repository ids, size segments, file paths
EntryIds == {"entry1", "error"}

Uuid(a, version, variant) ==
    Rep(a, 8) \o <<"-">> \o Rep("0", 4) \o <<"-", version>> \o Rep("1", 3) \o
    <<"-", variant>> \o Rep("2", 3) \o <<"-">> \o Rep("3", 12)

RepoIds ==
    {Uuid("a", "4", "8"),
     Uuid("A", "4", "8"),
     Uuid("a", "1", "8"),
     Uuid("a", "4", "c"),
     Replace(Uuid("a", "4", "8"), <<"-">>, <<>>),
     <<"{">> \o Uuid("a", "4", "8") \o <<"}">>,
     <<"e", "r", "r", "o", "r">>}

Sizes == {"256", "abc"}

FilePaths ==
    {<<"t", "e", "s", "t", ".", "j", "p", "g">>,
     <<"d", ".", "x", "/", "a", "+", "|", "2", "8", "|", "1", "|", "2", "9", "|">>,
     <<"a", "%", "2", "8", "1", "%", "2", "9", ".", "h", "e", "i", "c">>,
     <<"v", ".", "m", "p", "4">>}

\* the functions of the request's segments, evaluated once over the modelled
\* segments: is_valid_uuid(repo_id), f"{repo_id}", decode_path(file_path) and
\* mimetypes.guess_type(file_path)
ValidUuid == [repo_id \in RepoIds |-> is_valid_uuid(repo_id)]

RepoText == [repo_id \in RepoIds |-> Text(repo_id)]

DecodedPath == [file_path \in FilePaths |-> decode_path(file_path)]

MimeType == [file_path \in FilePaths |-> guess_type(file_path)]

\* the entries registered in hass.data[DOMAIN]: the entry of this updater,
\* unless the updater only verifies credentials
hass_data == IF is_only_check THEN {} ELSE {"entry1"}

\* async_get_updater
async_get_updater(identifier) ==
    IF identifier \notin hass_data THEN "ValueError" ELSE ""

\* the response a request ends with
Response(req, status, body, content_type, cache, calls_made, exc) ==
    [served |-> TRUE, request |-> req, status |-> status, body |-> body,
     content_type |-> content_type, cache |-> cache, calls |-> calls_made,
     exc |-> exc]

\* _404
NotFoundResponse(req, message, calls_made) ==
    Response(req, 404, message, "", FALSE, calls_made, "")

\* an exception that leaves the handler
Escapes(req, exc, calls_made) == Response(req, 0, "", "", FALSE, calls_made, exc)

\* the 200 response with its Cache-Control and ETag headers
ThumbnailResponse(req, thumbnail, mime, calls_made) ==
    Response(req, 200, thumbnail, mime, TRUE, calls_made, "")

\* what ends a fetch that raised: the handler's except clause or the caller
Failed(req, exc, calls_made) ==
    IF exc \in {SeafileConnectionError, SeafileRequestError, "ValueError",
                "ModuleNotFoundError"}
    THEN NotFoundResponse(req, "Thumbnail not found", calls_made)
    ELSE Escapes(req, exc, calls_made)

\* SeafileClient.thumbnail and the response built from it
ThumbnailBranch(req, mime, size, env) ==
    LET path == "repos/" \o RepoText[req.repo_id] \o "/thumbnail"
        p == "/" \o Text(Strip(DecodedPath[req.file_path], {"/"}))
        made == <<[call |-> "thumbnail", path |-> path, p |-> p, size |-> size]>>
        r == Request(token, diagnostics, path, TRUE, env.out)
    IN [diagnostics |-> r.diagnostics,
        response |->
            IF r.exc # "" THEN Failed(req, r.exc, made)
            ELSE IF r.ret.t # "bytes" THEN Escapes(req, "TypeError", made)
            ELSE ThumbnailResponse(req, "thumbnail", mime, made)]

\* SeafileClient.file, _convert_video and the response built from them
VideoBranch(req, size, env) ==
    LET path == "repos/" \o RepoText[req.repo_id] \o "/file"
        p == Text(DecodedPath[req.file_path])
        made == <<[call |-> "file", path |-> path, p |-> p, size |-> 0]>>
        r == Request(token, diagnostics, path, TRUE, env.out)
    IN [diagnostics |-> r.diagnostics,
        response |->
            IF r.exc # "" THEN Failed(req, r.exc, made)
            ELSE IF env.convert # "" THEN Failed(req, env.convert, made)
            ELSE ThumbnailResponse(req, "frame", MIMETYPE_JPEG, made)]

\* the HEIC branch: client.file is called with one argument too many
HeicBranch(req) ==
    [diagnostics |-> diagnostics, response |-> Escapes(req, "TypeError", <<>>)]

\* ThumbnailProxyView.get
Get_(req, env) ==
    LET size == IntOf(JStr(req.size))
        mime == MimeType[req.file_path]
        short_mime == get_short_mime(mime)
    IN IF size.exc # ""
       THEN [diagnostics |-> diagnostics, response |-> Escapes(req, size.exc, <<>>)]
       ELSE IF async_get_updater(req.entry_id) = "ValueError"
       THEN [diagnostics |-> diagnostics,
             response |-> NotFoundResponse(
                 req, "Unable to find entry with id: " \o req.entry_id, <<>>)]
       ELSE IF ~ValidUuid[req.repo_id]
       THEN [diagnostics |-> diagnostics,
             response |-> NotFoundResponse(
                 req, "Unable to find library with id: " \o RepoText[req.repo_id], <<>>)]
       ELSE IF mime = MIMETYPE_HEIC THEN HeicBranch(req)
       ELSE IF short_mime = MEDIA_CLASS_VIDEO THEN VideoBranch(req, size.n, env)
       ELSE ThumbnailBranch(req, mime, size.n, env)

\* one GET of /api/seafile/thumbnail/{entry_id}/{repo_id}/{size}/{file_path}
ThumbnailGet(entry_id, repo_id, size, file_path, env) ==
    /\ pc = "idle"
    /\ LET r == Get_([entry_id |-> entry_id, repo_id |-> repo_id, size |-> size,
                      file_path |-> file_path], env)
       IN /\ diagnostics' = r.diagnostics
          /\ response' = r.response
    /\ UNCHANGED <<updaterVars, token, result, media, link, flow, exported, accounts, tasks>>

\* what the server answers and how the video conversion ends
ViewEnv ==
    {[out |-> TransportError, convert |-> ""],
     [out |-> Resp(200, Binary), convert |-> ""],
     [out |-> Resp(200, JStr("https://host/f")), convert |-> ""],
     [out |-> Resp(200, JStr("https://host/f")), convert |-> "FileNotFoundError"],
     [out |-> Resp(404, ErrorBody), convert |-> ""]}

NextView ==
    \E entry_id \in EntryIds, repo_id \in RepoIds, size \in Sizes,
       file_path \in FilePaths, env \in ViewEnv :
        ThumbnailGet(entry_id, repo_id, size, file_path, env)

SpecView == Init /\ [][NextView]_vars

(***************************************************************************)
(* media_source.py: the media browser                                      *)
(***************************************************************************)
MEDIA_MIME_TYPES == {"audio", "video", "image"}

MEDIA_CLASS_IMAGE == "image"

THUMBNAIL_SIZE == 256

\* get_url(hass)
Host == "http://ha"

\* updater.username
Username == "user"

\* the names the modelled listings use, as their characters
NameChars ==
    [n \in {"d&nbsp", "a.jpg", "n.txt"} |->
        CASE n = "d&nbsp" -> <<"d", "&", "n", "b", "s", "p">>
          [] n = "a.jpg" -> <<"a", ".", "j", "p", "g">>
          [] n = "n.txt" -> <<"n", ".", "t", "x", "t">>]

\* the order of these names as Python compares strings
NameRank ==
    [n \in DOMAIN NameChars |->
        CASE n = "a.jpg" -> 1 [] n = "d&nbsp" -> 2 [] n = "n.txt" -> 3]

\* an outcome of async_browse_media or async_resolve_media
MediaOutcome(op, identifier, out, exc, msg, node, url, mime, made) ==
    [op |-> op, identifier |-> identifier, out |-> out, exc |-> exc, msg |-> msg,
     node |-> node, url |-> url, mime |-> mime, calls |-> made]

\* the call raised
MediaRaise(op, identifier, out, exc, msg, made) ==
    MediaOutcome(op, identifier, out, exc, msg, NoNode, "", "", made)

\* views.async_generate_thumbnail_url
async_generate_thumbnail_url(host, entry_id, repo_id, file_path, size) ==
    host \o "/api/seafile/thumbnail/" \o Text(entry_id) \o "/" \o Text(repo_id)
         \o "/" \o ToString(size) \o "/" \o Text(encode_path(file_path))

\* a node of the tree
Node(identifier, title, media_class, can_play, can_expand, thumbnail) ==
    [identifier |-> identifier, title |-> title, media_class |-> media_class,
     can_play |-> can_play, can_expand |-> can_expand, thumbnail |-> thumbnail]

\* SeafileMediaSource._build_library
build_library(entry_id, repo_id, name, state) ==
    Node(Text(entry_id) \o "/" \o repo_id, name, "directory", FALSE, state, "")

\* SeafileMediaSource._build_dir
build_dir(identifier, name) ==
    Node(Text(identifier) \o "/" \o Text(name), Text(name), "directory", FALSE, TRUE, "")

\* SeafileMediaSource._build_file
build_file(identifier, name, mime) ==
    LET path == Split(identifier, "/")
        thumbnail ==
            IF mime = MEDIA_CLASS_IMAGE
            THEN async_generate_thumbnail_url(
                     Host, path[1], path[2],
                     Join(SubSeq(path, 3, Len(path)), "/") \o <<"/">> \o name,
                     THUMBNAIL_SIZE)
            ELSE ""
    IN Node(Text(identifier) \o "/" \o Text(name), Text(name), mime, TRUE, FALSE,
            thumbnail)

\* the libraries of the snapshot, in the order of their ids
RECURSIVE Libraries(_, _, _)
Libraries(entry_id, ids, state) ==
    IF ids = {} THEN <<>>
    ELSE LET id == CHOOSE x \in ids : TRUE
         IN <<build_library(entry_id, Fmt(id), Fmt(repositories[id].name), state)>>
            \o Libraries(entry_id, ids \ {id}, state)

\* SeafileMediaSource._build_entry: the node, or the error raised
build_entry(entry_id) ==
    IF async_get_updater(Text(entry_id)) = "ValueError"
    THEN [exc |-> "MediaSourceError",
          msg |-> "Unable to find entry with id: " \o Text(entry_id), node |-> NoNode]
    ELSE LET state == GetOr(data, "state", JBool(FALSE)).n = 1
         IN [exc |-> "", msg |-> "",
             node |-> [identifier |-> Text(entry_id), title |-> Username,
                       can_expand |-> state,
                       children |-> Libraries(entry_id, DOMAIN repositories, state)]]

\* SeafileMediaSource._build_root
build_root ==
    [identifier |-> "", title |-> "Seafile", can_expand |-> TRUE,
     children |-> IF hass_data = {} THEN <<>>
                  ELSE <<build_entry(<<"e", "n", "t", "r", "y", "1">>).node>>]

\* identifiers: none, an entry, an entry with a repository, deeper paths
Entry1 == <<"e", "n", "t", "r", "y", "1">>

ErrorSegment == <<"e", "r", "r", "o", "r">>

Identifier(segments) == Join(segments, "/")

Identifiers ==
    {<<>>,
     Entry1,
     ErrorSegment,
     Identifier(<<Entry1, Uuid("a", "4", "8")>>),
     Identifier(<<Entry1, Uuid("b", "4", "b")>>),
     Identifier(<<Entry1, Uuid("A", "4", "8")>>),
     Identifier(<<Entry1, ErrorSegment>>),
     Identifier(<<ErrorSegment, Uuid("a", "4", "8")>>),
     Identifier(<<ErrorSegment, ErrorSegment>>),
     Identifier(<<Entry1, Uuid("a", "4", "8"), <<"d">>>>),
     Identifier(<<Entry1, Uuid("a", "4", "8"), <<"d">>, <<"a", ".", "j", "p", "g">>>>),
     Identifier(<<Entry1, Uuid("a", "4", "8"), <<"a", ".", "h", "e", "i", "c">>>>)}

\* the functions of the identifier, evaluated once over the modelled
\* identifiers: identifier.split("/"), is_valid_uuid(path[1]) and the text of
\* each segment
SplitIdentifier == [identifier \in Identifiers |-> Split(identifier, "/")]

ValidRepository ==
    [identifier \in Identifiers |->
        Len(SplitIdentifier[identifier]) >= 2
        /\ is_valid_uuid(SplitIdentifier[identifier][2])]

SegmentText ==
    [identifier \in Identifiers |->
        [i \in 1..Len(SplitIdentifier[identifier]) |->
            Text(SplitIdentifier[identifier][i])]]

\* a < b for sort keys, which are pairs of integers
KeyLess(a, b) == a[1] < b[1] \/ (a[1] = b[1] /\ a[2] < b[2])

RECURSIVE Insert(_, _)
Insert(items, x) ==
    IF items = <<>> THEN <<x>>
    ELSE IF KeyLess(x.key, Head(items).key) THEN <<x>> \o items
    ELSE <<Head(items)>> \o Insert(Tail(items), x)

\* sorted(items, key=...)
RECURSIVE Sorted(_)
Sorted(items) ==
    IF items = <<>> THEN <<>>
    ELSE Insert(Sorted(SubSeq(items, 1, Len(items) - 1)), items[Len(items)])

RECURSIVE InsertReverse(_, _)
InsertReverse(items, x) ==
    IF items = <<>> THEN <<x>>
    ELSE IF KeyLess(Head(items).key, x.key) THEN <<x>> \o items
    ELSE <<Head(items)>> \o InsertReverse(Tail(items), x)

\* sorted(items, key=..., reverse=True)
RECURSIVE SortedReverse(_)
SortedReverse(items) ==
    IF items = <<>> THEN <<>>
    ELSE InsertReverse(SortedReverse(SubSeq(items, 1, Len(items) - 1)),
                       items[Len(items)])

\* the file nodes of the listing, for the files of a displayable kind
RECURSIVE FileNodes(_, _)
FileNodes(identifier, files) ==
    IF files = <<>> THEN <<>>
    ELSE LET name == NameChars[Get(files[1].val, "name").s]
             mime == get_short_mime(guess_type(name))
         IN (IF mime \notin MEDIA_MIME_TYPES THEN <<>>
             ELSE <<build_file(identifier, Replace(name, <<"&", "n", "b", "s", "p">>, <<>>),
                               mime)>>)
            \o FileNodes(identifier, Tail(files))

\* SeafileMediaSource._build_path for one answer `out` of the directory listing
build_path(identifier, repo_id, path, out) ==
    LET api == "repos/" \o Text(repo_id) \o "/dir"
        made == <<[call |-> "directories", path |-> api, p |-> Text(path), size |-> 0]>>
        r == Request(token, diagnostics, api, FALSE, out)
        l == ListOf(r.ret)
        OfType(e, t) == HasKey(e, "type") /\ Get(e, "type") = JStr(t)
        Keyed(e) == HasKey(e, "name") /\ HasKey(e, "mtime")
        dirs == SelectSeq(l.val, LAMBDA e : OfType(e, "dir"))
        files == SelectSeq(l.val, LAMBDA e : OfType(e, "file"))
        DirKey(e) == [key |-> <<NameRank[Get(e, "name").s], Get(e, "mtime").n>>, val |-> e]
        FileKey(e) == [key |-> <<Get(e, "mtime").n, NameRank[Get(e, "name").s]>>, val |-> e]
        directories == Sorted([i \in 1..Len(dirs) |-> DirKey(dirs[i])])
        sources == [i \in 1..Len(directories) |->
                      build_dir(identifier,
                                Replace(NameChars[Get(directories[i].val, "name").s],
                                        <<"&", "n", "b", "s", "p">>, <<>>))]
        Raised(exc, msg) ==
            [diagnostics |-> r.diagnostics, exc |-> exc, msg |-> msg,
             children |-> <<>>, calls |-> made]
    IN IF r.exc \in {SeafileConnectionError, SeafileRequestError}
       THEN Raised("MediaSourceError", "Unable to find path: " \o Text(path))
       ELSE IF r.exc # "" THEN Raised(r.exc, "")
       ELSE IF l.exc # "" THEN Raised(l.exc, "")
       ELSE IF \E i \in 1..Len(l.val) : l.val[i].t # "obj"
       THEN Raised("AttributeError", "")
       ELSE IF \E i \in 1..Len(dirs) : ~Keyed(dirs[i]) THEN Raised("KeyError", "")
       ELSE IF \E i \in 1..Len(files) : ~Keyed(files[i]) THEN Raised("KeyError", "")
       ELSE [diagnostics |-> r.diagnostics, exc |-> "", msg |-> "",
             children |->
                 sources \o
                 FileNodes(identifier,
                           SortedReverse([i \in 1..Len(files) |-> FileKey(files[i])])),
             calls |-> made]

\* SeafileMediaSource.async_browse_media
async_browse_media(identifier, out) ==
    LET path == SplitIdentifier[identifier]
        text == SegmentText[identifier]
        Returned(node) ==
            [diagnostics |-> diagnostics,
             media |-> MediaOutcome("browse", identifier, out, "", "", node, "", "", <<>>)]
        Rejected(msg) ==
            [diagnostics |-> diagnostics,
             media |-> MediaRaise("browse", identifier, out, "MediaSourceError", msg, <<>>)]
    IN IF identifier = <<>> THEN Returned(build_root)
       ELSE IF Len(path) = 1
       THEN IF build_entry(identifier).exc # ""
            THEN Rejected(build_entry(identifier).msg)
            ELSE Returned(build_entry(identifier).node)
       ELSE IF ~ValidRepository[identifier]
       THEN Rejected("Unable to find library with id: " \o text[2])
       ELSE IF async_get_updater(text[1]) = "ValueError"
       THEN Rejected("Unable to find entry with id: " \o text[1])
       ELSE LET id == JStr(text[2])
                name == IF id \in DOMAIN repositories
                        THEN Fmt(repositories[id].name) ELSE "Library"
                source == IF Len(path) = 2
                          THEN build_library(path[1], text[2], name, TRUE)
                          ELSE build_dir(identifier, path[Len(path)])
                b == build_path(identifier, path[2],
                                <<"/">> \o Join(SubSeq(path, 3, Len(path)), "/"), out)
            IN [diagnostics |-> b.diagnostics,
                media |->
                    IF b.exc # ""
                    THEN MediaRaise("browse", identifier, out, b.exc, b.msg, b.calls)
                    ELSE MediaOutcome("browse", identifier, out, "", "",
                                      [identifier |-> source.identifier,
                                       title |-> source.title,
                                       can_expand |-> source.can_expand,
                                       children |-> b.children],
                                      "", "", b.calls)]

\* SeafileMediaSource.async_resolve_media
async_resolve_media(identifier, out) ==
    LET path == SplitIdentifier[identifier]
        text == SegmentText[identifier]
        api == "repos/" \o text[2] \o "/file"
        p == <<"/">> \o Join(SubSeq(path, 3, Len(path)), "/")
        made == <<[call |-> "file", path |-> api, p |-> Text(p), size |-> 0]>>
        mime == guess_type(path[Len(path)])
        r == Request(token, diagnostics, api, TRUE, out)
        Rejected(exc, msg) ==
            [diagnostics |-> diagnostics,
             media |-> MediaRaise("resolve", identifier, out, exc, msg, <<>>)]
    IN IF Len(path) < 2 THEN Rejected("IndexError", "")
       ELSE IF ~ValidRepository[identifier]
       THEN Rejected("Unresolvable", "Unable to find library with id: " \o text[2])
       ELSE IF async_get_updater(text[1]) = "ValueError"
       THEN Rejected("Unresolvable", "Unable to find entry with id: " \o text[1])
       ELSE IF mime = MIMETYPE_HEIC
       THEN [diagnostics |-> diagnostics,
             media |-> MediaOutcome(
                 "resolve", identifier, out, "", "", NoNode,
                 async_generate_thumbnail_url(Host, path[1], path[2], p, 0),
                 MIMETYPE_JPEG, <<>>)]
       ELSE [diagnostics |-> r.diagnostics,
             media |->
                 IF r.exc \in {SeafileConnectionError, SeafileRequestError}
                 THEN MediaRaise("resolve", identifier, out, "Unresolvable",
                                 "Could not resolve media item: " \o Text(identifier),
                                 made)
                 ELSE IF r.exc # ""
                 THEN MediaRaise("resolve", identifier, out, r.exc, "", made)
                 ELSE MediaOutcome("resolve", identifier, out, "", "", NoNode,
                                   IF r.ret.t = "text" THEN r.ret.s ELSE "b'\\x..'",
                                   mime, made)]

\* one call of async_browse_media.  The record _debug writes for the listing
\* call is not kept here: the log is followed call by call in SpecClient.
BrowseMedia(identifier, out) ==
    /\ pc = "idle"
    /\ media' = async_browse_media(identifier, out).media
    /\ UNCHANGED <<updaterVars, token, diagnostics, result, response, link, flow, exported, accounts, tasks>>

\* one call of async_resolve_media
ResolveMedia(identifier, out) ==
    /\ pc = "idle"
    /\ media' = async_resolve_media(identifier, out).media
    /\ UNCHANGED <<updaterVars, token, diagnostics, result, response, link, flow, exported, accounts, tasks>>

\* an element of a directory listing
Element(type, name, mtime) ==
    JObj(<<F("type", JStr(type)), F("name", JStr(name)), F("mtime", JNum(mtime))>>)

\* what the server may answer to the listing or file-link call
MediaOutcomes ==
    {TransportError,
     Resp(404, ErrorBody),
     Resp(200, JList(<<Element("file", "n.txt", 3), Element("dir", "d&nbsp", 1),
                       Element("file", "a.jpg", 2)>>)),
     Resp(200, JList(<<JObj(<<F("type", JStr("file")), F("name", JStr("a.jpg"))>>)>>)),
     Resp(200, DetailBody),
     Resp(200, JStr("https://host/f"))}

\* the cycles that fill the snapshot the media source reads
MediaLoginOutcomes == {Resp(200, JObj(<<F("token", JStr("t1"))>>))}

MediaServerOutcomes == {Resp(200, JObj(<<F("version", JStr("9.0.2"))>>))}

MediaAccountOutcomes ==
    {Resp(200, JObj(<<F("avatar_url", JStr("http://a")), F("total", JNum(100)),
                      F("usage", JNum(50))>>))}

MediaLibrariesOutcomes ==
    {TransportError,
     Resp(200, JList(<<Lib(Text(Uuid("a", "4", "8")), 10, "A")>>))}

NextMedia ==
    \/ StartUpdate
    \/ \E out \in MediaLoginOutcomes : LoginStep(out)
    \/ \E out \in MediaServerOutcomes : ServerStep(out)
    \/ \E out \in MediaAccountOutcomes : AccountStep(out)
    \/ \E out \in MediaLibrariesOutcomes : LibrariesStep(out)
    \/ \E identifier \in Identifiers, out \in MediaOutcomes :
          BrowseMedia(identifier, out)
    \/ \E identifier \in Identifiers, out \in MediaOutcomes :
          ResolveMedia(identifier, out)

SpecMedia == Init /\ [][NextMedia]_vars

(***************************************************************************)
(* The file path of a thumbnail URL: encoded by the media source, decoded  *)
(* by the proxy                                                            *)
(***************************************************************************)
\* async_generate_thumbnail_url encodes `path` into the URL and
\* ThumbnailProxyView.get decodes the segment it is given
GenerateThumbnailUrl(path) ==
    /\ pc = "idle"
    /\ link' = [generated |-> TRUE, path |-> path, file_path |-> encode_path(path),
                decoded |-> decode_path(encode_path(path))]
    /\ UNCHANGED <<updaterVars, token, diagnostics, result, response, media, flow, exported, accounts, tasks>>

\* path segments: letters, blanks, parentheses, a dot
PathSegments ==
    {<<"a">>,
     <<"a", " ", "b">>,
     <<"(", "1", ")">>,
     <<"a", " ", "(", "1", ")", ".", "j", "p", "g">>}

\* the paths of one to three segments, as f"{'/'.join(path[2:])}/{name}" builds
\* them: with a leading "/" for a file in the root of a library
FilePathsEncoded ==
    LET relative ==
            {<<s1>> : s1 \in PathSegments}
            \cup {<<s1, s2>> : s1 \in PathSegments, s2 \in PathSegments}
            \cup {<<s1, s2, s3>> : s1 \in PathSegments, s2 \in PathSegments,
                                   s3 \in PathSegments}
    IN {Join(r, "/") : r \in relative} \cup {<<"/">> \o Join(r, "/") : r \in relative}

NextPath == \E path \in FilePathsEncoded : GenerateThumbnailUrl(path)

SpecPath == Init /\ [][NextPath]_vars

(***************************************************************************)
(* config_flow.py: the user flow and the options flow.  Each submitted form *)
(* runs one cycle of an only-check updater (helper.async_verify_access)    *)
(* and branches on its code.                                               *)
(***************************************************************************)
\* return updater.code
async_verify_access == code

\* errors["base"] for a code that is not a success
FlowErrorsForbiddenOnly(c) == IF c = FORBIDDEN \/ c = NOT_FOUND THEN "request.error" ELSE "connection.error"

FlowErrors(c) == IF c = FORBIDDEN THEN "request.error" ELSE "connection.error"

async_show_form(step_id, errors, c, verified) ==
    [step |-> step_id, type |-> "form", errors |-> errors, code |-> c,
     verified |-> verified]

async_create_entry(step_id, c) ==
    [step |-> step_id, type |-> "create_entry", errors |-> "", code |-> c,
     verified |-> TRUE]

\* the part of both steps after `code = await async_verify_access(...)`
FlowResult(step_id, c) ==
    IF is_success(c) THEN async_create_entry(step_id, c)
    ELSE async_show_form(step_id, FlowErrors(c), c, TRUE)

\* the flow can take a step: no entry was created and the flow was not aborted
FlowOpen == flow.type \notin {"create_entry", "abort"}

\* a step called without user input shows the empty form
ShowForm(step_id) ==
    /\ is_only_check
    /\ pc = "idle"
    /\ outcome = "none"
    /\ flow.step = "none"
    /\ flow' = async_show_form(step_id, "", 0, FALSE)
    /\ UNCHANGED <<updaterVars, token, diagnostics, result, response, media, link, exported, accounts, tasks>>

\* async_step_user with the user name of a configured entry:
\* _abort_if_unique_id_configured ends the flow before the verification
AbortConfigured ==
    /\ is_only_check
    /\ pc = "idle"
    /\ outcome = "none"
    /\ flow.step \in {"none", "user"}
    /\ FlowOpen
    /\ flow' = [step |-> "user", type |-> "abort", errors |-> "", code |-> 0,
                verified |-> FALSE]
    /\ UNCHANGED <<updaterVars, token, diagnostics, result, response, media, link, exported, accounts, tasks>>

\* the form shown again is submitted: async_verify_access constructs the
\* only-check updater and client of the next verification
SubmitAgain ==
    /\ is_only_check
    /\ pc = "idle"
    /\ flow.type = "form"
    /\ flow.verified
    /\ flow' = [flow EXCEPT !.verified = FALSE]
    /\ code' = BAD_GATEWAY
    /\ is_reauthorization' = TRUE
    /\ is_first_update' = TRUE
    /\ data' = Empty
    /\ last_update_success' = TRUE
    /\ token' = JNull
    /\ calls' = <<>>
    /\ raised' = ""
    /\ outcome' = "none"
    /\ prev' = "none"
    /\ UNCHANGED <<is_only_check, repositories, sensors, new_sensor_callback,
                   diagnostics, entities, wrote, added, announced, pc, result,
                   response, media, link, exported, accounts, tasks>>

\* await updater.async_request_refresh() of async_verify_access: the one
\* cycle of the only-check updater
VerifyStart ==
    /\ is_only_check
    /\ outcome = "none"
    /\ FlowOpen
    /\ StartUpdate

\* async_step_user with user input, from the return of async_verify_access
async_step_user ==
    /\ is_only_check
    /\ pc = "idle"
    /\ outcome # "none"
    /\ flow.step \in {"none", "user"}
    /\ ~flow.verified
    /\ flow' = FlowResult("user", async_verify_access)
    /\ UNCHANGED <<updaterVars, token, diagnostics, result, response, media, link, exported, accounts, tasks>>

\* SeafileOptionsFlow.async_step_init with user input, from the return of
\* async_verify_access
async_step_init ==
    /\ is_only_check
    /\ pc = "idle"
    /\ outcome # "none"
    /\ flow.step \in {"none", "init"}
    /\ ~flow.verified
    /\ flow' = FlowResult("init", async_verify_access)
    /\ UNCHANGED <<updaterVars, token, diagnostics, result, response, media, link, exported, accounts, tasks>>

NextFlow ==
    \/ \E step_id \in {"user", "init"} : ShowForm(step_id)
    \/ AbortConfigured
    \/ SubmitAgain
    \/ VerifyStart
    \/ \E out \in LoginOutcomes : LoginStep(out)
    \/ \E out \in ServerOutcomes : ServerStep(out)
    \/ async_step_user
    \/ async_step_init

SpecFlow == Init /\ [][NextFlow]_vars

(***************************************************************************)
(* Specification of the account stage: cycles whose login, server-info and *)
(* library calls succeed and whose account/info answer takes every shape   *)
(* of "total" and "usage"                                                  *)
(***************************************************************************)
\* values of a field of account/info; JNull stands for a field left out
AccountTotals == {JNull, JNum(-2), JNum(0), JNum(100), JStr("50"), JStr("abc")}

AccountUsages == {JNull, JNum(-1), JNum(0), JNum(50), JStr("100"), JStr("abc")}

AccountBody(total, usage) ==
    JObj((IF total = JNull THEN <<>> ELSE <<F("total", total)>>)
         \o (IF usage = JNull THEN <<>> ELSE <<F("usage", usage)>>))

\* what the server may answer to GET account/info
AccountCases ==
    {Resp(200, AccountBody(t, u)) : t \in AccountTotals, u \in AccountUsages}
    \cup {Resp(403, DetailBody)}

NextAccount ==
    \/ StartUpdate
    \/ \E out \in MediaLoginOutcomes : LoginStep(out)
    \/ \E out \in MediaServerOutcomes : ServerStep(out)
    \/ \E out \in AccountCases : AccountStep(out)
    \/ \E out \in {Resp(200, JList(<<Lib("u1", 10, "A")>>))} : LibrariesStep(out)

SpecAccount == Init /\ [][NextAccount]_vars

(***************************************************************************)
(* diagnostics.py: the export of the config entry, the snapshot and the    *)
(* debug log through async_redact_data                                     *)
(***************************************************************************)
TO_REDACT ==
    {"token", "url", "password", "username", "email", "avatar_url",
     "contact_email", "owner", "owner_contact_email", "modifier_email",
     "modifier_contact_email"}

REDACTED == "**REDACTED**"

RECURSIVE async_redact_data(_)
\* homeassistant.components.diagnostics.async_redact_data(data, TO_REDACT):
\* the value of every key of TO_REDACT is replaced, at any depth of dicts and
\* lists; None and "" are left, and so is every value that is not under such
\* a key
async_redact_data(v) ==
    CASE v.t = "list" ->
            JList([i \in 1..Len(v.items) |-> async_redact_data(v.items[i])])
      [] v.t = "obj" ->
            JObj([i \in 1..Len(v.items) |->
                    LET key == v.items[i].k
                        value == v.items[i].v
                    IN IF value.t = "null" \/ value = JStr("") THEN v.items[i]
                       ELSE IF key \in TO_REDACT THEN F(key, JStr(REDACTED))
                       ELSE IF value.t \in {"obj", "list"}
                            THEN F(key, async_redact_data(value))
                       ELSE v.items[i]])
      [] OTHER -> v

RECURSIVE SeqOf(_)
\* the items of a set, in some order
SeqOf(S) ==
    IF S = {} THEN <<>>
    ELSE LET x == CHOOSE y \in S : TRUE
         IN <<x>> \o SeqOf(S \ {x})

\* self._password
Password == "secret"

\* config_entry.as_dict(): the flow creates the entry with title and unique id
\* set to the user name
ConfigEntryDict ==
    JObj(<<F("entry_id", JStr("entry1")),
           F("domain", JStr("seafile")),
           F("title", JStr(Username)),
           F("data", JObj(<<F("url", JStr(Host)), F("username", JStr(Username)),
                            F("password", JStr(Password)),
                            F("scan_interval", JNum(10)), F("timeout", JNum(10))>>)),
           F("options", JObj(<<F("is_from_flow", JBool(TRUE))>>)),
           F("unique_id", JStr(Username))>>)

\* updater.data as a dict (a library id is the string of the listing)
DataDict ==
    LET keys == SeqOf(DOMAIN data)
        ids == SeqOf(DOMAIN repositories)
    IN JObj(<<F("repositories",
                JObj([i \in 1..Len(ids) |->
                        F(ids[i].s, JObj(<<F("size", repositories[ids[i]].size),
                                         F("name", repositories[ids[i]].name)>>))]))>>
            \o [i \in 1..Len(keys) |-> F(keys[i], data[keys[i]])])

\* updater.client.diagnostics as a dict (the time of a record is left out)
RequestsDict ==
    LET paths == SeqOf(DOMAIN diagnostics)
    IN JObj([i \in 1..Len(paths) |->
               F(paths[i], JObj(<<F("message", JStr(diagnostics[paths[i]].message)),
                                  F("content", diagnostics[paths[i]].content)>>))])

SensorKeys ==
    LET keys == SeqOf(DOMAIN sensors)
    IN JList([i \in 1..Len(keys) |-> JStr(keys[i])])

async_get_config_entry_diagnostics ==
    /\ ~is_only_check
    /\ exported' =
          [done |-> TRUE,
           value |->
              JObj(<<F("config_entry", async_redact_data(ConfigEntryDict)),
                     F("data", async_redact_data(DataDict))>>
                   \o (IF DOMAIN diagnostics # {}
                       THEN <<F("requests", async_redact_data(RequestsDict))>>
                       ELSE <<>>)
                   \o (IF DOMAIN sensors # {} THEN <<F("sensors", SensorKeys)>>
                       ELSE <<>>))]
    /\ UNCHANGED <<updaterVars, token, diagnostics, result, response, media, link,
                   flow, accounts, tasks>>

\* the download link GET repos/{id}/file answers with
FileLink == "http://ha/seafhttp/files/t2/a.jpg"

Email == "user@x"

\* what the server may answer to POST auth-token
DiagLoginOutcomes ==
    {TransportError, Resp(200, JObj(<<F("token", JStr("t1"))>>))}

\* GET repos/{id}/file: the link as a JSON string, and as bare text
DiagFileOutcomes ==
    {TransportError, Resp(200, JStr(FileLink)), Resp(200, NonJson(FileLink))}

\* GET account/info
DiagAccountOutcomes ==
    {Resp(200, JObj(<<F("email", JStr(Email)), F("name", JStr("User")),
                      F("contact_email", JStr(Email)),
                      F("avatar_url", JStr("http://a")), F("total", JNum(100)),
                      F("usage", JNum(50))>>))}

\* GET repos/{id}/dir
DiagDirOutcomes ==
    {Resp(200, JList(<<JObj(<<F("type", JStr("file")), F("name", JStr("a.jpg")),
                              F("modifier_email", JStr(Email))>>)>>))}

FilePath == "repos/" \o Text(Uuid("a", "4", "8")) \o "/file"

DirPath == "repos/" \o Text(Uuid("a", "4", "8")) \o "/dir"

NextDiagnostics ==
    \/ StartUpdate
    \/ \E out \in MediaLoginOutcomes : LoginStep(out)
    \/ \E out \in MediaServerOutcomes : ServerStep(out)
    \/ \E out \in MediaAccountOutcomes : AccountStep(out)
    \/ \E out \in {Resp(200, JList(<<Lib("u1", 10, "A")>>))} : LibrariesStep(out)
    \/ \E out \in DiagLoginOutcomes : ClientLogin(out)
    \/ \E out \in DiagFileOutcomes : ClientRequest(FilePath, TRUE, out)
    \/ \E out \in DiagAccountOutcomes : ClientRequest("account/info", FALSE, out)
    \/ \E out \in DiagDirOutcomes : ClientRequest(DirPath, FALSE, out)
    \/ async_get_config_entry_diagnostics

SpecDiagnostics == Init /\ [][NextDiagnostics]_vars

(***************************************************************************)
(* Two accounts: each has its updater and its sensor platform, and all     *)
(* share the dispatcher of Home Assistant.  An account is followed by its  *)
(* repositories, its descriptors and the entities of its platform.         *)
(***************************************************************************)
\* the libraries each account's server lists
LibrariesOf(a) == IF a = "A" THEN {"a1", "a2"} ELSE {"b1", "b2"}

\* async_dispatcher_send(hass, SIGNAL_NEW_SENSOR, descriptor): every callback
\* connected to the signal is called, whichever entry connected it, and adds
\* an entity bound to the updater of its own entry
async_dispatcher_send(accs, key) ==
    [b \in Accounts |->
        IF accs[b].new_sensor_callback
        THEN [accs[b] EXCEPT !.entities = accs[b].entities \cup {key}]
        ELSE accs[b]]

\* _add_size_sensor of the updater of account a
AddSizeSensorOf(accs, a, key) ==
    IF key \in accs[a].sensors THEN accs
    ELSE LET accs1 == [accs EXCEPT ![a].sensors = accs[a].sensors \cup {key}]
         IN IF accs[a].new_sensor_callback THEN async_dispatcher_send(accs1, key)
            ELSE accs1

\* the library stage of a cycle of account a whose listing holds library id
LibrariesStageOf(a, id) ==
    /\ accounts' = AddSizeSensorOf(
                      [accounts EXCEPT ![a].repositories = accounts[a].repositories \cup {id}],
                      a, id \o "_used")
    /\ accounts' # accounts
    /\ UNCHANGED <<updaterVars, token, diagnostics, result, response, media, link,
                   flow, exported, tasks>>

\* sensor.async_setup_entry of account a
SensorSetupEntryOf(a) ==
    /\ ~accounts[a].new_sensor_callback
    /\ accounts' = [accounts EXCEPT ![a].entities = accounts[a].entities \cup accounts[a].sensors,
                                    ![a].new_sensor_callback = TRUE]
    /\ UNCHANGED <<updaterVars, token, diagnostics, result, response, media, link,
                   flow, exported, tasks>>

NextAccounts ==
    \/ \E a \in Accounts : \E id \in LibrariesOf(a) : LibrariesStageOf(a, id)
    \/ \E a \in Accounts : SensorSetupEntryOf(a)

SpecAccounts == Init /\ [][NextAccounts]_vars

(***************************************************************************)
(* Two update() coroutines of one updater, interleaved at their awaits:    *)
(* the timer-driven refresh and a requested one.  Both work on the same    *)
(* fields of the updater and on the same client.                           *)
(***************************************************************************)
\* the start of update() in coroutine t, up to its first await
TaskStart(t) ==
    /\ ~is_only_check
    /\ tasks[t].pc = "idle"
    /\ code' = OK
    /\ tasks' = [tasks EXCEPT ![t].pc = IF is_reauthorization \/ is_first_update
                                        THEN "login" ELSE "server",
                              ![t].login = FALSE,
                              ![t].raised = ""]
    /\ UNCHANGED <<is_reauthorization, is_first_update, is_only_check, data,
                   repositories, sensors, new_sensor_callback, last_update_success,
                   token, diagnostics, entities, wrote, added, announced, pc, calls,
                   raised, outcome, prev, result, response, media, link, flow,
                   exported, accounts>>

\* coroutine t awaits its next call
TaskContinue(t, u, next) ==
    /\ tasks' = [tasks EXCEPT ![t].pc = next,
                              ![t].login = tasks[t].login \/ tasks[t].pc = "login"]
    /\ data' = u.data
    /\ repositories' = u.repositories
    /\ sensors' = u.sensors
    /\ announced' = u.announced
    /\ added' = u.added
    /\ entities' = u.entities
    /\ UNCHANGED <<code, is_reauthorization, is_first_update, last_update_success,
                   wrote>>

\* the except / else clauses and the last two statements of update() in
\* coroutine t, and the coordinator taking the result
TaskFinish(t, u, exc) ==
    LET seafile == exc \in {SeafileConnectionError, SeafileRequestError}
        returns == exc = "" \/ seafile
        code1 == CASE exc = SeafileConnectionError -> NOT_FOUND
                   [] exc = SeafileRequestError -> FORBIDDEN
                   [] OTHER -> code
        d1 == IF returns THEN Put(u.data, "state", JBool(is_success(code1)))
              ELSE u.data
        n == Notify(u.entities, d1, u.repositories)
    IN /\ code' = code1
       /\ is_reauthorization' = (IF exc = "" THEN FALSE
                                 ELSE IF seafile THEN TRUE ELSE is_reauthorization)
       /\ is_first_update' = (IF exc = "" THEN FALSE ELSE is_first_update)
       /\ data' = d1
       /\ repositories' = u.repositories
       /\ sensors' = u.sensors
       /\ announced' = u.announced
       /\ added' = u.added
       /\ last_update_success' = returns
       /\ entities' = n.entities
       /\ wrote' = n.wrote
       /\ tasks' = [tasks EXCEPT ![t] = [pc |-> "idle", done |-> TRUE,
                                         login |-> tasks[t].login, raised |-> exc]]

\* await self.client.login() in coroutine t
TaskLogin(t, out) ==
    /\ tasks[t].pc = "login"
    /\ LET r == Login(token, diagnostics, out)
       IN /\ token' = r.token
          /\ IF r.exc # "" THEN TaskFinish(t, Cur, r.exc) ELSE TaskContinue(t, Cur, "server")
    /\ UNCHANGED <<is_only_check, new_sensor_callback, diagnostics, pc, calls, raised,
                   outcome, prev, result, response, media, link, flow, exported,
                   accounts>>

\* await self._async_prepare(method, self.data) in coroutine t
TaskStage(t, method, path, out) ==
    /\ tasks[t].pc = method
    /\ LET r == Request(token, diagnostics, path, FALSE, out)
           u == IF r.exc # "" THEN [Cur EXCEPT !.exc = r.exc] ELSE Prepare(method, Cur, r.ret)
       IN /\ token' = r.token
          /\ IF u.exc # "" THEN TaskFinish(t, u, u.exc)
             ELSE IF NextStage(method) = "done" THEN TaskFinish(t, u, "")
             ELSE TaskContinue(t, u, NextStage(method))
    /\ UNCHANGED <<is_only_check, new_sensor_callback, diagnostics, pc, calls, raised,
                   outcome, prev, result, response, media, link, flow, exported,
                   accounts>>

\* what the server may answer to POST auth-token and to GET server-info
OverlapLoginOutcomes == {TransportError, Resp(200, JObj(<<F("token", JStr("t1"))>>))}

OverlapServerOutcomes ==
    {Resp(403, DetailBody), Resp(200, JObj(<<F("version", JStr("9.0.2"))>>))}

NextOverlap ==
    \/ \E t \in Tasks : TaskStart(t)
    \/ \E t \in Tasks : \E out \in OverlapLoginOutcomes : TaskLogin(t, out)
    \/ \E t \in Tasks : \E out \in OverlapServerOutcomes :
          TaskStage(t, "server", "server-info", out)
    \/ \E t \in Tasks : \E out \in MediaAccountOutcomes :
          TaskStage(t, "account", "account/info", out)
    \/ \E t \in Tasks : \E out \in LibrariesOutcomes :
          TaskStage(t, "libraries", "repos", out)

SpecOverlap == Init /\ [][NextOverlap]_vars

(***************************************************************************)
(* Properties of the update cycle                                          *)
(***************************************************************************)
\* the snapshot's `state`
State == GetOr(data, "state", JBool(FALSE)).n = 1

\* no cycle is in flight and at least one has finished
CycleDone == pc = "idle" /\ outcome # "none"

\* C1: after a cycle returns, the snapshot's `state` is true exactly when
\* nothing was raised by the login or by a data stage of that cycle, whatever
\* the cycle before it did.
C1_StateIsCycleOutcome ==
    (CycleDone /\ outcome \in {"success", "failed"}) =>
        /\ "state" \in DOMAIN data
        /\ State <=> (raised = "")

C1_Witness ==
    /\ CycleDone
    /\ outcome = "success"
    /\ prev = "failed"
    /\ State

\* C2: a cycle calls login(), and calls it first, exactly when no cycle ran
\* before it or the cycle before it did not succeed.
C2_LoginIffNoSuccessSinceFailure ==
    CycleDone =>
        /\ ("login" \in {calls[i] : i \in 1..Len(calls)}) <=> (prev # "success")
        /\ (prev # "success") => calls[1] = "login"

\* C3: update() never lets an exception out: every finished cycle returned a
\* snapshot, whose `state` is false when the cycle did not succeed.
C3_UpdateNeverPropagates ==
    CycleDone =>
        /\ raised \in {"", SeafileConnectionError, SeafileRequestError}
        /\ "state" \in DOMAIN data
        /\ (raised # "") => ~State

\* the libraries of a listing, as the records the snapshot keeps
Listed(out) ==
    {[id |-> Get(out.content.items[i], "id"),
      rec |-> [size |-> Get(out.content.items[i], "size"),
               name |-> Get(out.content.items[i], "name")]] :
        i \in {j \in 1..Len(out.content.items) :
                 /\ HasKey(out.content.items[j], "id")
                 /\ HasKey(out.content.items[j], "size")
                 /\ HasKey(out.content.items[j], "name")}}

\* C4: the key set of `repositories` never shrinks, and a record changes or
\* appears only in the library stage, for an id of the listing, to the
\* {size, name} the listing reports.
C4_RepositoriesOnlyGrow ==
    [][/\ DOMAIN repositories \subseteq DOMAIN repositories'
       /\ (repositories' # repositories) =>
             /\ pc = "libraries"
             /\ \E out \in {o \in LibrariesOutcomes : o.kind = "response" /\ o.status < 400} :
                   \A id \in DOMAIN repositories' :
                       (id \notin DOMAIN repositories
                          \/ repositories'[id] # repositories[id])
                       => [id |-> id, rec |-> repositories'[id]] \in Listed(out)
      ]_vars

C4_Witness ==
    /\ CycleDone
    /\ DOMAIN repositories = {JStr("u1"), JStr("u2")}

\* C5: a descriptor, once registered, is never removed, replaced or changed,
\* and no announcement is sent for its key again.
C5_RegistrationIdempotent ==
    [][\A k \in DOMAIN sensors :
          /\ k \in DOMAIN sensors'
          /\ sensors'[k] = sensors[k]
          /\ GetOr(announced', k, 0) = GetOr(announced, k, 0)
      ]_vars

\* library u1 was renamed after its descriptor was created
C5_Witness ==
    /\ "u1_used" \in DOMAIN sensors
    /\ sensors["u1_used"].name = "A used"
    /\ JStr("u1") \in DOMAIN repositories
    /\ repositories[JStr("u1")].name = JStr("B")
    /\ GetOr(announced, "u1_used", 0) = 1

\* C6: before the sensor platform has subscribed nothing is added or
\* announced; once it has, every descriptor has been added exactly once, and
\* announced once if it was registered after the subscription, never if it
\* was registered before.
C6_Inv ==
    /\ DOMAIN added \subseteq DOMAIN sensors
    /\ DOMAIN announced \subseteq DOMAIN sensors
    /\ ~new_sensor_callback => (added = Empty /\ announced = Empty)
    /\ new_sensor_callback =>
          \A k \in DOMAIN sensors :
              /\ GetOr(added, k, 0) = 1
              /\ k \in DOMAIN entities
              /\ GetOr(announced, k, 0) \in {0, 1}

C6_Step ==
    \A k \in DOMAIN sensors' \ DOMAIN sensors :
        GetOr(announced', k, 0) = (IF new_sensor_callback THEN 1 ELSE 0)

C6_EveryDescriptorAddedOnce == [](C6_Inv) /\ [][C6_Step]_vars

C6_Witness ==
    /\ new_sensor_callback
    /\ \E k \in DOMAIN sensors : GetOr(announced, k, 0) = 0 /\ GetOr(added, k, 0) = 1
    /\ \E k \in DOMAIN sensors : GetOr(announced, k, 0) = 1 /\ GetOr(added, k, 0) = 1

\* C7: a size sensor is available only when the snapshot's `state` is true;
\* the reachability binary sensor is always available and is on exactly when
\* the snapshot's `state` is true.
C7_Availability ==
    /\ \A k \in DOMAIN entities :
          (entities[k].platform = "sensor" /\ Available(k)) => State
    /\ "state" \in DOMAIN entities =>
          /\ Available("state")
          /\ entities["state"].value = JBool(State)

(***************************************************************************)
(* Properties of the client                                                *)
(***************************************************************************)
\* a direct call has been made
Called == result.call # ""

\* C8: login() and request() return, raise the connection error or raise the
\* request error, and nothing else.
C8_OnlyTwoFailureKinds ==
    Called => result.exc \in {"", SeafileConnectionError, SeafileRequestError}

\* the fragment a field of an error body contributes, as the claim words it
Fragment(f) ==
    IF f.v.t = "str" /\ f.v.s # "" THEN <<f.v.s>>
    ELSE IF f.v.t = "list" /\ f.v.items # <<>>
         THEN <<f.k \o ": " \o
                JoinStr([i \in 1..Len(f.v.items) |-> f.v.items[i].s], "; ")>>
    ELSE <<>>

RECURSIVE Fragments(_, _)
Fragments(fs, n) ==
    IF n = 0 THEN <<>> ELSE Fragments(fs, n - 1) \o Fragment(fs[n])

RECURSIVE JoinFragments(_, _)
JoinFragments(xs, n) ==
    IF n = 1 THEN xs[1] ELSE JoinFragments(xs, n - 1) \o ".\n" \o xs[n]

\* the request-error message the claim gives for a parsed error body
ExpectedMessage(b) ==
    IF b.t = "list" \/ b.items = <<>> \/ Fragments(b.items, Len(b.items)) = <<>>
    THEN "Request error."
    ELSE JoinFragments(Fragments(b.items, Len(b.items)),
                       Len(Fragments(b.items, Len(b.items))))

\* an error body whose field values are of the kinds the claim names
WellFormedError(b) ==
    \/ b.t = "list"
    \/ /\ b.t = "obj"
       /\ \A i \in 1..Len(b.items) :
             b.items[i].v.t = "list" =>
                \A j \in 1..Len(b.items[i].v.items) : b.items[i].v.items[j].t = "str"

\* C9: a request error is raised only for a status >= 400 and then carries the
\* message built from the body's fields in their order; an error body that is
\* a list or an object of strings and string lists always raises it.
C9_RequestErrorMessage ==
    Called =>
        /\ (result.exc = SeafileRequestError) =>
              /\ result.out.kind = "response"
              /\ result.out.status >= 400
              /\ result.out.content.t \in {"obj", "list"} =>
                    result.msg = ExpectedMessage(result.out.content)
              /\ result.out.content.t \notin {"obj", "list"} =>
                    result.msg = "Request error."
        /\ (/\ result.out.kind = "response"
            /\ result.out.status >= 400
            /\ WellFormedError(result.out.content)) =>
              /\ result.exc = SeafileRequestError
              /\ result.msg = ExpectedMessage(result.out.content)

C9_Witness ==
    /\ Called
    /\ result.exc = SeafileRequestError
    /\ result.msg = "msg.\nb: x; y"

(***************************************************************************)
(* Properties of the thumbnail proxy                                       *)
(***************************************************************************)
\* a canonical UUIDv4 string: 8-4-4-4-12 lower-case hex digits, version 4,
\* variant 8, 9, a or b
IsCanonicalUUID4(cs) ==
    /\ Len(cs) = 36
    /\ \A i \in 1..36 :
          IF i \in {9, 14, 19, 24} THEN cs[i] = "-"
          ELSE \E j \in 1..16 : HexLower[j] = cs[i]
    /\ cs[15] = "4"
    /\ cs[20] \in {"8", "9", "a", "b"}

\* C10: a request with an unknown entry id is answered 404 "Unable to find
\* entry with id: <id>", otherwise one whose repository id is not a canonical
\* UUIDv4 is answered 404 "Unable to find library with id: <id>", and neither
\* makes an API-client call.
C10_ValidationOrder ==
    response.served =>
        /\ response.request.entry_id \notin hass_data =>
              /\ response.status = 404
              /\ response.body =
                    "Unable to find entry with id: " \o response.request.entry_id
              /\ response.calls = <<>>
        /\ (/\ response.request.entry_id \in hass_data
            /\ ~IsCanonicalUUID4(response.request.repo_id)) =>
              /\ response.status = 404
              /\ response.body =
                    "Unable to find library with id: " \o Text(response.request.repo_id)
              /\ response.calls = <<>>

\* C11: every request to the thumbnail proxy is answered, either 200 with the
\* image bytes and the Cache-Control and ETag headers or 404 with a reason,
\* and no exception leaves the handler, whatever the branch, the server's
\* answer, the conversion's outcome and the size segment.
C11_AlwaysAnswered ==
    response.served =>
        /\ response.exc = ""
        /\ \/ response.status = 200 /\ response.cache /\ response.body # ""
           \/ response.status = 404 /\ response.body # ""

(***************************************************************************)
(* Properties of the media browser                                         *)
(***************************************************************************)
\* the segments of the identifier of the last call
Segments == Split(media.identifier, "/")

\* C12: browse and resolve reject an identifier whose repository segment is
\* not a canonical UUIDv4 with "Unable to find library with id: <segment>",
\* whatever its entry segment, otherwise one whose entry segment names no
\* configured account with "Unable to find entry with id: <segment>", both
\* before any API-client call.
C12_MediaValidation ==
    media.op # "" =>
        /\ (Len(Segments) >= 2 /\ ~IsCanonicalUUID4(Segments[2])) =>
              /\ media.exc = (IF media.op = "resolve" THEN "Unresolvable"
                              ELSE "MediaSourceError")
              /\ media.msg = "Unable to find library with id: " \o Text(Segments[2])
              /\ media.calls = <<>>
        /\ (/\ media.identifier # <<>>
            /\ Len(Segments) >= 2 => IsCanonicalUUID4(Segments[2])
            /\ Text(Segments[1]) \notin hass_data) =>
              /\ media.exc = (IF media.op = "resolve" THEN "Unresolvable"
                              ELSE "MediaSourceError")
              /\ media.msg = "Unable to find entry with id: " \o Text(Segments[1])
              /\ media.calls = <<>>

\* C13: browse and resolve return a node or a playable item, or fail with the
\* media-source error of the call, for every identifier and every answer of
\* the server.
C13_MediaErrorsOnly ==
    media.op # "" =>
        media.exc \in {"", IF media.op = "resolve" THEN "Unresolvable"
                           ELSE "MediaSourceError"}

(***************************************************************************)
(* Properties of the path encoding                                         *)
(***************************************************************************)
\* C14: decoding the encoded file path gives back the path that was encoded,
\* for paths of letters, blanks, parentheses and "/" separators, a leading
\* "/" included.
C14_PathRoundTrip == link.generated => link.decoded = link.path

(***************************************************************************)
(* Properties of credential verification                                   *)
(***************************************************************************)
\* the first cycle of an updater is running or has finished
FirstCycle == prev = "none" /\ (pc # "idle" \/ outcome # "none")

C15_Inv ==
    is_only_check =>
        /\ \A i \in 1..Len(calls) : calls[i] \notin {"account", "libraries"}
        /\ sensors = Empty
        /\ announced = Empty
        /\ repositories = Empty
        /\ FirstCycle => calls \in {<<>>, <<"login">>, <<"login", "server">>}
        /\ (FirstCycle /\ CycleDone /\ raised = "") => calls = <<"login", "server">>

C15_Step ==
    (is_only_check /\ pc = "login" /\ raised' # "") =>
        (pc' = "idle" /\ calls' = <<"login">>)

\* C15: an only-check cycle calls login and then only server-info, never the
\* account or library endpoints, registers no descriptor, announces nothing
\* and leaves repositories empty; a login that raises ends the cycle before
\* server-info is called.
C15_OnlyCheckCycle == [](C15_Inv) /\ [][C15_Step]_vars

C15_Witness ==
    /\ is_only_check
    /\ FirstCycle
    /\ CycleDone
    /\ outcome = "success"
    /\ calls = <<"login", "server">>
    /\ GetOr(data, "device_sw_version", JNull) = JStr("9.0.2")

\* C16: a flow step that verified the credentials creates the entry exactly
\* when the code of the verification cycle is a success code, and otherwise
\* shows its form again with "request.error" exactly for the forbidden code
\* and "connection.error" for every other code.
C16_FlowFollowsCode ==
    flow.verified =>
        /\ flow.code = code
        /\ flow.step \in {"user", "init"}
        /\ flow.type = "create_entry" <=> (200 <= flow.code /\ flow.code <= 299)
        /\ flow.type # "create_entry" =>
              /\ flow.type = "form"
              /\ flow.errors = "request.error" <=> flow.code = 403
              /\ flow.errors = "connection.error" <=> flow.code # 403

C16_Witness ==
    /\ flow.verified
    /\ flow.step = "init"
    /\ flow.type = "form"
    /\ flow.errors = "connection.error"
    /\ flow.code = 404
    /\ raised = "SeafileConnectionError"

(***************************************************************************)
(* Properties of the account stage                                         *)
(***************************************************************************)
\* the fields of an account/info answer: none when the call failed
AnswerFields(out) ==
    IF out.kind = "response" /\ out.status = 200 /\ out.content.t = "obj"
    THEN out.content.items ELSE <<>>

\* field f is present with a non-negative value n
PresentNonNegative(out, f, n) ==
    \E i \in 1..Len(AnswerFields(out)) :
        LET v == AnswerFields(out)[i].v
        IN /\ AnswerFields(out)[i].k = f
           /\ n >= 0
           /\ \/ v.t = "num" /\ v.n = n
              \/ v.t = "str" /\ v.s \in DOMAIN NumericStr /\ NumericStr[v.s] = n

C17_Field(out, f) ==
    LET k == "space_" \o f
        written == k \in DOMAIN data' /\ (k \notin DOMAIN data \/ data'[k] # data[k])
        registered == k \in DOMAIN sensors' /\ k \notin DOMAIN sensors
    IN /\ (written \/ registered) =>
              \E n \in 0..100 : PresentNonNegative(out, f, n) /\ data'[k] = JNum(n)
       /\ k \in DOMAIN data => k \in DOMAIN data'
       /\ k \in DOMAIN sensors => k \in DOMAIN sensors'
       /\ \A n \in 0..100 :
              (PresentNonNegative(out, f, n) /\ pc' = "libraries") =>
                  /\ k \in DOMAIN data' /\ data'[k] = JNum(n)
                  /\ k \in DOMAIN sensors'

C17_Step ==
    \A out \in AccountCases :
        AccountStep(out) => (C17_Field(out, "total") /\ C17_Field(out, "usage"))

RECURSIVE Leaves(_)
\* the strings that occur as values in a JSON value
Leaves(v) ==
    CASE v.t = "str" -> {v.s}
      [] v.t = "list" -> UNION {Leaves(v.items[i]) : i \in 1..Len(v.items)}
      [] v.t = "obj" -> UNION {Leaves(v.items[i].v) : i \in 1..Len(v.items)}
      [] OTHER -> {}

\* the credentials, the token, the URLs and the e-mail address of the account
Sensitive == {Username, Password, "t1", Host, "http://a", FileLink, Email}

\* C18: an exported diagnostics document holds none of the credentials,
\* tokens, URLs or e-mail addresses of the config entry, the snapshot and the
\* debug log.
C18_ExportRedacted == exported.done => Leaves(exported.value) \cap Sensitive = {}

(***************************************************************************)
(* Properties of a failing cycle                                           *)
(***************************************************************************)
C19_Inv ==
    CycleDone =>
        /\ raised = SeafileConnectionError => (code = 404 /\ is_reauthorization)
        /\ raised = SeafileRequestError => (code = 403 /\ is_reauthorization)

C19_Step ==
    (pc = "login" /\ raised' # "") =>
        /\ pc' = "idle"
        /\ calls' = Append(calls, "login")
        /\ is_reauthorization'
        /\ \A i \in 1..Len(calls') : calls'[i] \notin {"server", "account", "libraries"}
        /\ sensors' = sensors
        /\ repositories' = repositories
        /\ \A k \in DOMAIN data' \ {"state"} : k \in DOMAIN data /\ data'[k] = data[k]

\* C19: a cycle whose login() raises runs no data stage and leaves needs-login
\* true; a cycle ended by a connection error, in login() or in a data stage,
\* records not-found, one ended by a request error records forbidden, and
\* both set needs-login.
C19_FailureClassified == [](C19_Inv) /\ [][C19_Step]_vars

C19_Witness ==
    /\ CycleDone
    /\ raised = SeafileRequestError
    /\ calls = <<"login">>
    /\ code = 403
    /\ is_reauthorization
    /\ prev = "failed"

C20_Step ==
    (pc \in {"server", "account", "libraries"}
       /\ raised' \in {SeafileConnectionError, SeafileRequestError}) =>
        /\ pc' = "idle"
        /\ calls' = Append(calls, pc)
        /\ \A k \in DOMAIN data \ {"state"} : k \in DOMAIN data' /\ data'[k] = data[k]
        /\ repositories' = repositories
        /\ "state" \in DOMAIN data' /\ data'["state"] = JBool(FALSE)
        /\ is_reauthorization'

C20_NextCycle ==
    (pc = "idle" /\ pc' # "idle"
       /\ raised \in {SeafileConnectionError, SeafileRequestError}) => pc' = "login"

\* C20: a data stage that raises a connection or request error ends the
\* cycle: no later stage is called, every field the snapshot held before the
\* stage (those written earlier in the cycle included) is kept, state is
\* false, and the next cycle starts with login().
C20_PartialSnapshotKept == [][C20_Step /\ C20_NextCycle]_vars

C20_Witness ==
    /\ CycleDone
    /\ prev = "none"
    /\ raised = SeafileConnectionError
    /\ calls = <<"login", "server", "account", "libraries">>
    /\ GetOr(data, "device_sw_version", JNull) = JStr("9.0.2")
    /\ GetOr(data, "space_total", JNull) = JNum(100)
    /\ ~State
    /\ is_reauthorization

(***************************************************************************)
(* Properties of the snapshot across cycles                                *)
(***************************************************************************)
\* the stage that writes a top-level field of the snapshot
Writer(k) == IF k = "device_sw_version" THEN "server" ELSE "account"

\* C21: after a cycle, every top-level field of the snapshot other than
\* `state` belongs to a stage that this cycle called: a field written only by
\* an earlier cycle is not carried over.
C21_SnapshotReplaced ==
    CycleDone =>
        \A k \in DOMAIN data \ {"state"} :
            \E i \in 1..Len(calls) : calls[i] = Writer(k)

(***************************************************************************)
(* Properties of the calls of a cycle                                      *)
(***************************************************************************)
CallOrder == <<"login", "server", "account", "libraries">>

\* C22: the calls of a cycle are the first calls of login, server-info,
\* account/info and the library listing in that order, with or without the
\* login: no call is made twice in a cycle, and none after one that failed.
C22_CallsOnceInOrder ==
    /\ \E n \in 0..4 : calls = SubSeq(CallOrder, 1, n) \/ calls = SubSeq(CallOrder, 2, n)
    /\ (pc # "idle" /\ raised = "") \/ pc = "idle"
    /\ (pc = "idle" /\ raised # "") => Len(calls) >= 1

C22_Witness ==
    /\ CycleDone
    /\ raised = SeafileRequestError
    /\ calls = <<"server", "account">>
    /\ prev = "success"

(***************************************************************************)
(* Properties of the entity adapters                                       *)
(***************************************************************************)
\* the (value, availability) pair an entity stores
StoredPair(e) == <<e.value, e.attr_available>>

\* the pair the snapshot gives an entity: a repository-bound sensor reads
\* repositories[repo][field], the others read the top-level key
DerivedPair(e, d, repos) ==
    LET up == "state" \in DOMAIN d /\ d["state"] = JBool(TRUE)
    IN IF e.platform = "binary_sensor"
       THEN <<IF e.key \in DOMAIN d THEN d[e.key] ELSE JBool(FALSE), TRUE>>
       ELSE IF e.repository_code # JNull
       THEN <<IF e.repository_code \in DOMAIN repos /\ e.custom_key = "size"
              THEN repos[e.repository_code].size ELSE JNull, up>>
       ELSE <<IF e.key \in DOMAIN d THEN d[e.key] ELSE JNull, up>>

C23_Step ==
    (pc # "idle" /\ pc' = "idle") =>
        \A k \in DOMAIN entities :
            /\ k \in DOMAIN entities'
            /\ k \in wrote' <=>
                  StoredPair(entities[k]) # DerivedPair(entities[k], data', repositories')
            /\ StoredPair(entities'[k]) = DerivedPair(entities[k], data', repositories')

\* C23: at the notification that ends a cycle an entity writes its state
\* exactly when the pair the new snapshot gives it differs from the pair it
\* stored, and afterwards it stores the pair the snapshot gives it.
C23_WriteIffChanged == [][C23_Step]_vars

C23_Witness ==
    /\ CycleDone
    /\ outcome = "success"
    /\ prev = "success"
    /\ "state" \in DOMAIN entities
    /\ wrote = {"u1_used"}

(***************************************************************************)
(* Properties of the client's token and log                                *)
(***************************************************************************)
\* the call that has just returned was a login answered below 400 with a JSON
\* object that holds a token field
LoginGaveToken(r) ==
    /\ r.call = "login"
    /\ r.out.kind = "response"
    /\ r.out.status < 400
    /\ r.out.content.t = "obj"
    /\ \E i \in 1..Len(r.out.content.items) : r.out.content.items[i].k = "token"

C24_Step ==
    /\ LoginGaveToken(result') =>
          \E i \in 1..Len(result'.out.content.items) :
              /\ result'.out.content.items[i].k = "token"
              /\ token' = result'.out.content.items[i].v
    /\ ~LoginGaveToken(result') => token' = token

\* C24: the token becomes the token field of a login answered below 400 with
\* a JSON object holding one, and is left as it was by every other login and
\* by every request.
C24_TokenOnlyByLogin == [][C24_Step]_vars

C24_Witness ==
    /\ token = JStr("t2")
    /\ result.call = "request"
    /\ result.exc = SeafileConnectionError

\* the record the log must hold for the call that has just finished
ExpectedRecord(r) ==
    LET parsed == r.out.content.t \in {"obj", "list", "str", "num", "bool", "null"}
        text == r.call = "request" /\ r.string_response /\ r.out.status < 400
    IN IF r.out.kind = "error"
       THEN [message |-> "Connection error", content |-> JStr("HTTPError")]
       ELSE IF ~parsed /\ ~text
       THEN [message |-> "Connection error", content |-> JStr("JSONDecodeError")]
       ELSE [message |-> "Successful request",
             content |-> IF parsed THEN r.out.content
                         ELSE IF r.out.content.t = "binary" THEN JStr("b'\\x..'")
                         ELSE JStr("b'" \o r.out.content.s \o "'")]

C25_Step ==
    LET p == result'.path
    IN /\ DOMAIN diagnostics' = DOMAIN diagnostics \cup {p}
       /\ diagnostics'[p] = ExpectedRecord(result')
       /\ \A q \in DOMAIN diagnostics \ {p} : diagnostics'[q] = diagnostics[q]

\* C25: after a login() or request() call on a path, returned or raised, the
\* log holds for that path the one record of this call, the records of the
\* other paths are as they were, and the log has no record of a path that
\* was not called.
C25_OneRecordPerPath == [][C25_Step]_vars

C25_Witness ==
    /\ DOMAIN diagnostics = {"auth-token", "server-info"}
    /\ diagnostics["auth-token"].message = "Successful request"
    /\ diagnostics["server-info"].message = "Connection error"
    /\ diagnostics["server-info"].content = JStr("JSONDecodeError")
    /\ result.call = "request"
    /\ result.exc = SeafileConnectionError

\* C26: a cycle that has issued a data call (server-info, account/info or the
\* library listing) holds a token that a login returned.
C26_DataCallsCarryToken ==
    (\E i \in 1..Len(calls) : calls[i] \in {"server", "account", "libraries"}) =>
        token # JNull

(***************************************************************************)
(* Properties of two accounts                                              *)
(***************************************************************************)
\* C27: every sensor entity of an account's platform was made from a
\* descriptor of that account's updater: a descriptor registered by one
\* account makes no entity in the other.
C27_AnnouncementsIsolated ==
    \A b \in Accounts : accounts[b].entities \subseteq accounts[b].sensors

(***************************************************************************)
(* Properties of overlapping cycles                                        *)
(***************************************************************************)
\* no update() coroutine is in flight and at least one has finished
AllIdle == (\A t \in Tasks : tasks[t].pc = "idle") /\ (\E t \in Tasks : tasks[t].done)

\* C28: whenever no cycle of the updater is in flight and one has finished,
\* needs-login is false exactly when the snapshot's state is true and the
\* code is a success code, also when two cycles overlapped at their awaits.
C28_NeedsLoginIffState ==
    AllIdle => (~is_reauthorization <=> (State /\ 200 <= code /\ code <= 299))

\* coroutine t ends a cycle in which its login() and its three stages
\* returned without raising
HealthyCycle(t) ==
    /\ tasks[t].pc = "libraries"
    /\ tasks[t].login
    /\ tasks'[t].pc = "idle"
    /\ tasks'[t].raised = ""

\* C30: a cycle in which login and all three stages succeed ends with the
\* snapshot's state true and needs-login false, whatever cycles failed before
\* it returned.
C30_RecoveryInOneCycle ==
    [][\A t \in Tasks : HealthyCycle(t) => (State' /\ ~is_reauthorization')]_vars

(***************************************************************************)
(* Properties of the descriptor registry                                   *)
(***************************************************************************)
SpaceKeys == {"space_total", "space_usage"}

\* the descriptor key of a library id
UsedKey(id) == Fmt(id) \o "_used"

\* C29: whenever no cycle is in flight, the descriptors are those of the
\* snapshot: <id>_used for exactly the ids of repositories, space_<f> for
\* exactly the space fields of the snapshot.
C29_RegistryAgreesWithSnapshot ==
    pc = "idle" =>
        /\ DOMAIN sensors \cap SpaceKeys = DOMAIN data \cap SpaceKeys
        /\ DOMAIN sensors \ SpaceKeys = {UsedKey(id) : id \in DOMAIN repositories}

\* a first cycle that crashed inside the library loop after one library
C29_Witness ==
    /\ CycleDone
    /\ prev = "none"
    /\ outcome = "crashed"
    /\ DOMAIN repositories = {JStr("u1")}
    /\ "u1_used" \in DOMAIN sensors

====
